---- MODULE Spec2Model ----
(***************************************************************************)
(* Authentication and session core of the BaatCheet backend:               *)
(* OTP-gated registration, login, logout, refresh, OTP-gated password      *)
(* reset (backend/controllers/auth-controller.js), the User model          *)
(* (backend/models/Users.js), the access-control gate (auth-middleware)    *)
(* and the two stores they share: MongoDB (users) and Redis (redis).       *)
(***************************************************************************)
EXTENDS Integers, Sequences, FiniteSets, TLC

VARIABLES
    users,         \* MongoDB collection "users": sequence of documents, in creation order
    redis,         \* Redis: key -> <<>> (absent) or <<[val, exp]>> (value, absolute expiry)
    now,           \* wall clock in seconds (Date.now()/1000, the unit of jwt iat/exp and of EX)
    ticks,         \* how many times the clock has been advanced (bounds the exploration)
    issuedRefresh, \* every refresh token a response has set as a cookie so far
    issuedAccess,  \* every access token a response has set as a cookie so far
    res,           \* the last request and the response it got
    calls          \* requests in flight whose handler is suspended at an await

vars == <<users, redis, now, ticks, issuedRefresh, issuedAccess, res, calls>>

----------------------------------------------------------------------------
(* Input universes and bounds *)

Emails == {"a@x.com", "b@x.com"}
Usernames == {"alice", "bob"}
Passwords == {"Abc123!", "Xyz789!"}
OTPs == {"111111", "222222"}
\* ObjectIds in the order MongoDB assigns them
ObjectIds == <<"id1", "id2">>

\* an absent string field of a request (undefined)
NoStr == "-"
\* an absent value (null / undefined) and a present one
None == <<>>
Some(v) == <<v>>

MaxTicks == 2
MaxSessionTicks == 1
\* how many distinct tokens of each kind login and refresh may put in circulation
MaxTokens == 2
\* how many register / verify-otp requests are served concurrently
MaxCalls == 2
MaxRaceTicks == 1

----------------------------------------------------------------------------
(* Program constants *)

REGISTER_TTL == 300
RATELIMIT_TTL == 60
REFRESH_TTL == 604800
RESET_TTL == 300
\* process.env.REFRESH_TOKEN_EXPIRY / ACCESS_TOKEN_EXPIRY: the deployment sets them to
\* the cookies' maxAge (7 days, 15 minutes)
REFRESH_TOKEN_EXPIRY == 604800
ACCESS_TOKEN_EXPIRY == 900

----------------------------------------------------------------------------
(* Redis *)

RegisterKey(email) == <<"register", email>>
RegisterRateKey(email) == <<"register:ratelimit", email>>
ResetKey(email) == <<"reset", email>>
ResetRateKey(email) == <<"reset:rateLimit", email>>
RefreshKey(id) == <<"refresh", id>>

Keys ==
    ({"register", "register:ratelimit", "reset", "reset:rateLimit"} \X Emails)
        \cup ({"refresh"} \X {ObjectIds[i] : i \in 1..Len(ObjectIds)})

\* redisClient.get(key): the value, or null
redisGet(r, k) == IF r[k] = None THEN None ELSE Some(r[k][1].val)
\* a set whose 60-second keys live 600 seconds, longer than the tickets
redisSetMarkerOutlives(r, k, v, ttl) ==
    [r EXCEPT ![k] = Some([val |-> v, exp |-> now + (IF ttl = 60 THEN 600 ELSE ttl)])]
\* a set that keeps an entry that is already there (NX)
redisSetNX(r, k, v, ttl) ==
    IF r[k] # None THEN r ELSE [r EXCEPT ![k] = Some([val |-> v, exp |-> now + ttl])]
\* redisClient.set(key, value, "EX", ttl)
redisSet(r, k, v, ttl) == [r EXCEPT ![k] = Some([val |-> v, exp |-> now + ttl])]
\* a del that removes nothing
redisDelNothing(r, k) == r
\* redisClient.del(key)
redisDel(r, k) == [r EXCEPT ![k] = None]
\* the reply of DEL: the number of keys removed
redisDelReply(r, k) == IF r[k] = None THEN 0 ELSE 1
\* keys that never expire
redisExpireNever(r, t) == r
\* Redis drops a key once its EX time has elapsed
redisExpire(r, t) == [k \in Keys |-> IF r[k] # None /\ r[k][1].exp <= t THEN None ELSE r[k]]

----------------------------------------------------------------------------
(* Pure helpers *)

\* JSON.stringify / JSON.parse of a flat object of strings
JSONstringify(obj) == [json |-> obj]
JSONparse(s) == s.json

\* a digest of the account id alone, the same for every token of the account
hashAccountOnly(refreshTok) == [sha256 |-> refreshTok.id]
\* crypto sha256 hex digest of the token
hashRefreshToken(refreshTok) == [sha256 |-> refreshTok]

\* bcrypt.hash(password, 10) and bcrypt.compare (the salt is left out)
bcryptHash(password) == [bcrypt |-> password]
\* a comparison that accepts every password
validatePasswordAny(user, password) == TRUE
validatePassword(user, password) == user.password.bcrypt = password

\* jwt.sign({_id, email}, ACCESS_TOKEN_SECRET, {expiresIn})
createAccessToken(user) ==
    [secret |-> "ACCESS", id |-> user.id, email |-> user.email,
     iat |-> now, exp |-> now + ACCESS_TOKEN_EXPIRY]
\* a refresh token signed with the secret of the access tokens
createRefreshTokenAccessSecret(user) ==
    [secret |-> "ACCESS", id |-> user.id, email |-> NoStr,
     iat |-> now, exp |-> now + REFRESH_TOKEN_EXPIRY]
\* jwt.sign({_id}, REFRESH_TOKEN_SECRET, {expiresIn})
createRefreshToken(user) ==
    [secret |-> "REFRESH", id |-> user.id, email |-> NoStr,
     iat |-> now, exp |-> now + REFRESH_TOKEN_EXPIRY]

\* a verification that does not look at the signature
jwtVerifyAnySecret(tok, secret) ==
    IF now >= tok.exp THEN "TokenExpiredError" ELSE "ok"
\* jwt.verify(token, secret): "ok", or the name of the error it throws
jwtVerify(tok, secret) ==
    IF tok.secret # secret THEN "JsonWebTokenError"
    ELSE IF now >= tok.exp THEN "TokenExpiredError"
    ELSE "ok"

----------------------------------------------------------------------------
(* MongoDB *)

UserIdx == 1..Len(users)
\* a lookup by email alone
findByEmailOnly(username, email) == {i \in UserIdx : users[i].email = email}
\* User.findOne({ $or: [{ username }, { email }] })
findByUsernameOrEmail(username, email) ==
    {i \in UserIdx : users[i].username = username \/ users[i].email = email}
\* User.findOne({ email })
findByEmail(email) == {i \in UserIdx : users[i].email = email}
\* User.findById(id)
findById(id) == {i \in UserIdx : users[i].id = id}
\* a collection whose username field has no unique index
duplicateKeyEmailOnly(username, email) == \E i \in UserIdx : users[i].email = email
\* a collection whose email field has no unique index
duplicateKeyUsernameOnly(username, email) == \E i \in UserIdx : users[i].username = username
\* the unique indexes on username and email reject the insert (E11000)
duplicateKey(username, email) ==
    \E i \in UserIdx : users[i].username = username \/ users[i].email = email

----------------------------------------------------------------------------
(* Responses *)

Ok(status, message) == [threw |-> "none", status |-> status, message |-> message]
\* throw new ApiError(status, message): the status and message the handler chose
Err(status, message) == [threw |-> "ApiError", status |-> status, message |-> message]
\* an error thrown by a library call, not by the handler
Thrown(name) == [threw |-> name, status |-> 500, message |-> name]

Conflict == Err(409, "User with email or username already exists")
RateLimited == Err(429, "Too many OTP requests. Please try again later.")
OtpMissing == Err(404, "Email or OTP missing")
Expired == Err(400, "OTP expired or invalid")
InvalidOtp == Err(400, "Invalid OTP")
VerifyConflict == Err(400, "User already exists")
NotFound == Err(404, "User not found")
NotVerified == Err(400, "Account not verified")
IncorrectPassword == Err(400, "Incorrect password")
NoRefreshToken == Err(401, "No Refresh Token Found")
SessionExpired == Err(403, "Session expired, please log in again")
PossibleReuseAttack == Err(403, "Invalid refresh token, possible token reuse attack")
ResetRateLimited == Err(429, "Too many OTP requests. Try again later")
ResetFieldsMissing == Err(400, "Email, OTP and Password are required")
NoAccessToken == Err(401, "Unauthorized access - no access token found")
AccessTokenExpired == Err(401, "Access token expired")
InvalidAccessToken == Err(401, "Invalid access token")

Request(op, email, username, password, otp, token) ==
    [op |-> op, email |-> email, username |-> username, password |-> password,
     otp |-> otp, token |-> token]

\* a response, at the current time, that sets no cookie and enqueues no mail;
\* data: the second argument of new ApiResponse(status, data, message), null unless
\* the handler passes an object;
\* enqueue: how the promise of emailQueue.add settles, when the handler calls it;
\* removed: how many keys the handler's redisClient.del calls removed
Reply(req, out) ==
    [op |-> req.op, email |-> req.email, username |-> req.username,
     password |-> req.password, otp |-> req.otp, token |-> req.token, at |-> now,
     out |-> out, setAccess |-> None, setRefresh |-> None, cleared |-> FALSE,
     job |-> None, removed |-> 0, data |-> None, enqueue |-> None]

\* a response body that also carries the two tokens
ApiResponseDataWithTokens(user, accessToken, refreshToken) ==
    [user |-> [id |-> user.id, username |-> user.username, email |-> user.email,
               isVerified |-> user.isVerified],
     accessToken |-> accessToken, refreshToken |-> refreshToken]
\* the data verifyOtp and loginUser pass to new ApiResponse, where the account and the
\* two tokens just created are in scope
ApiResponseData(user, accessToken, refreshToken) ==
    [user |-> [id |-> user.id, username |-> user.username, email |-> user.email,
               isVerified |-> user.isVerified]]

\* utils/api-error.js, `new ApiError(status, message)`: the constructor begins with
\* success(message), a call of its third parameter, which defaults to false; the call
\* throws before super() and before any field is set, so the expression yields no
\* ApiError but throws a TypeError, which has no status
ApiErrorNew(status, message) ==
    [name |-> "TypeError", status |-> None, message |-> "success is not a function"]

\* utils/asyncHandler.js: the error a rejected handler passes to next()
asyncHandler(out) ==
    IF out.threw = "ApiError" THEN ApiErrorNew(out.status, out.message)
    ELSE [name |-> out.threw, status |-> None, message |-> out.message]

\* app.js, error handler: err.status || 500 and err.message
errorHandler(err) ==
    [status |-> IF err.status = None THEN 500 ELSE err.status[1], message |-> err.message]

\* what the client receives for the outcome of a handler
Deliver(out) ==
    IF out.threw = "none" THEN [status |-> out.status, message |-> out.message]
    ELSE errorHandler(asyncHandler(out))

\* the slots of the requests in flight, and a free slot
Calls == 1..MaxCalls
Idle == [pc |-> "idle", email |-> NoStr, username |-> NoStr, password |-> NoStr,
         otp |-> NoStr, data |-> None, id |-> NoStr, access |-> None, refresh |-> None]

Init ==
    /\ users = <<>>
    /\ redis = [k \in Keys |-> None]
    /\ now = 0
    /\ ticks = 0
    /\ issuedRefresh = {}
    /\ issuedAccess = {}
    /\ res = Reply(Request("start", NoStr, NoStr, NoStr, NoStr, None), Ok(200, "start"))
    /\ calls = [c \in Calls |-> Idle]

\* bound of the exploration: a token may be issued while fewer than MaxTokens circulate
CanIssue(issued, tok) == tok \in issued \/ Cardinality(issued) < MaxTokens

----------------------------------------------------------------------------
(* Handlers of backend/controllers/auth-controller.js, each run to completion *)

\* a creation that leaves isVerified to the default of the schema
UserCreateUnverified(parsedUserData) ==
    [id |-> ObjectIds[Len(users) + 1],
     username |-> parsedUserData.username,
     email |-> parsedUserData.email,
     password |-> bcryptHash(parsedUserData.password),
     isVerified |-> FALSE, status |-> "online", lastSeen |-> now]

\* verifyOtp: bcrypt.hash of the staged password and the document of User.create
UserCreate(parsedUserData) ==
    [id |-> ObjectIds[Len(users) + 1],
     username |-> parsedUserData.username,
     email |-> parsedUserData.email,
     password |-> bcryptHash(parsedUserData.password),
     isVerified |-> TRUE, status |-> "online", lastSeen |-> now]

\* registerOutcome without the cooldown check
registerOutcomeNoRateLimit(username, email) ==
    IF findByUsernameOrEmail(username, email) # {} THEN Conflict
    ELSE Ok(200, "OTP sent to your email.")

\* registerOutcome with a cooldown shared by every email and both flows
registerOutcomeAnyMarker(username, email) ==
    IF findByUsernameOrEmail(username, email) # {} THEN Conflict
    ELSE IF \E e \in Emails : \/ redisGet(redis, RegisterRateKey(e)) # None
                              \/ redisGet(redis, ResetRateKey(e)) # None
    THEN RateLimited
    ELSE Ok(200, "OTP sent to your email.")

\* POST /register: the checks of the handler, in order, and what it answers
\* (the route has no authValidator, so req.user is never set)
registerOutcome(username, email) ==
    IF findByUsernameOrEmail(username, email) # {} THEN Conflict
    ELSE IF redisGet(redis, RegisterRateKey(email)) # None THEN RateLimited
    ELSE Ok(200, "OTP sent to your email.")

\* a handler that awaits the promise of emailQueue.add: a rejection rejects the handler
emailQueueAddAwaited(out, added) ==
    IF added THEN out ELSE Thrown("Error")
\* emailQueue.add(...) as the two issuing handlers call it, without await and without
\* a catch: the promise is dropped, and the handler goes on to the response it had
\* decided on, whether the queue takes the job (added) or the promise rejects
emailQueueAdd(out, added) == out
\* how the dropped promise settles
Settled(added) == IF added THEN "fulfilled" ELSE "rejected"

\* otp: the code generateOTP() draws; added: whether the queue takes the mail job
registerUserEnqueue(username, email, password, otp, added) ==
    LET req == Request("register", email, username, password, NoStr, None)
        out == registerOutcome(username, email)
        staged == JSONstringify([username |-> username, email |-> email,
                                 password |-> password, otp |-> otp])
    IN  IF out.threw # "none"
        THEN /\ res' = Reply(req, out)
             /\ UNCHANGED <<calls, users, redis, now, ticks, issuedRefresh, issuedAccess>>
        ELSE /\ redis' = redisSet(redisSet(redis, RegisterKey(email), staged, REGISTER_TTL),
                                  RegisterRateKey(email), "true", RATELIMIT_TTL)
             /\ res' = [Reply(req, emailQueueAdd(out, added))
                          EXCEPT !.job = Some([name |-> "sendMail", email |-> email,
                                               subject |-> "OTP Verification",
                                               username |-> username, otp |-> otp]),
                                 !.enqueue = Some(Settled(added))]
             /\ UNCHANGED <<calls, users, now, ticks, issuedRefresh, issuedAccess>>

\* POST /register when the queue takes the job
registerUser(username, email, password, otp) ==
    registerUserEnqueue(username, email, password, otp, TRUE)

\* verifyOtpOutcome without the check that the staged entry exists: JSON.parse(null)
\* is null and reading its otp throws
verifyOtpOutcomeNoTicketCheck(email, otp) ==
    LET tempUserData == redisGet(redis, RegisterKey(email))
        parsedUserData == JSONparse(tempUserData[1])
    IN  IF email = NoStr \/ otp = NoStr THEN OtpMissing
        ELSE IF tempUserData = None THEN Thrown("TypeError")
        ELSE IF parsedUserData.otp # otp THEN InvalidOtp
        ELSE IF findByEmail(email) # {} THEN VerifyConflict
        ELSE IF duplicateKey(parsedUserData.username, parsedUserData.email)
        THEN Thrown("MongoServerError")
        ELSE Ok(201, "User verified and logged in successfully.")

\* verifyOtpOutcome without the comparison of the submitted code
verifyOtpOutcomeAnyCode(email, otp) ==
    LET tempUserData == redisGet(redis, RegisterKey(email))
        parsedUserData == JSONparse(tempUserData[1])
    IN  IF email = NoStr \/ otp = NoStr THEN OtpMissing
        ELSE IF tempUserData = None THEN Expired
        ELSE IF findByEmail(email) # {} THEN VerifyConflict
        ELSE IF duplicateKey(parsedUserData.username, parsedUserData.email)
        THEN Thrown("MongoServerError")
        ELSE Ok(201, "User verified and logged in successfully.")

\* POST /verify-otp: the checks of the handler, in order, and what it answers
verifyOtpOutcome(email, otp) ==
    LET tempUserData == redisGet(redis, RegisterKey(email))
        parsedUserData == JSONparse(tempUserData[1])
    IN  IF email = NoStr \/ otp = NoStr THEN OtpMissing
        ELSE IF tempUserData = None THEN Expired
        ELSE IF parsedUserData.otp # otp THEN InvalidOtp
        ELSE IF findByEmail(email) # {} THEN VerifyConflict
        \* User.create rejects: the error leaves the handler before any write
        ELSE IF duplicateKey(parsedUserData.username, parsedUserData.email)
        THEN Thrown("MongoServerError")
        ELSE Ok(201, "User verified and logged in successfully.")

verifyOtp(email, otp) ==
    LET req == Request("verifyOtp", email, NoStr, NoStr, otp, None)
        out == verifyOtpOutcome(email, otp)
        parsedUserData == JSONparse(redisGet(redis, RegisterKey(email))[1])
        newUser == UserCreate(parsedUserData)
        accessTok == createAccessToken(newUser)
        refreshTok == createRefreshToken(newUser)
    IN  IF out = VerifyConflict
        THEN /\ redis' = redisDel(redis, RegisterKey(email))
             /\ res' = [Reply(req, out)
                          EXCEPT !.removed = redisDelReply(redis, RegisterKey(email))]
             /\ UNCHANGED <<calls, users, now, ticks, issuedRefresh, issuedAccess>>
        ELSE IF out.threw # "none"
        THEN /\ res' = Reply(req, out)
             /\ UNCHANGED <<calls, users, redis, now, ticks, issuedRefresh, issuedAccess>>
        ELSE /\ users' = Append(users, newUser)
             /\ redis' = redisDel(redisDel(
                    redisSet(redis, RefreshKey(newUser.id), hashRefreshToken(refreshTok),
                             REFRESH_TTL),
                    RegisterKey(email)), RegisterRateKey(email))
             /\ issuedAccess' = issuedAccess \cup {accessTok}
             /\ issuedRefresh' = issuedRefresh \cup {refreshTok}
             /\ res' = [Reply(req, out)
                          EXCEPT !.setAccess = Some(accessTok),
                                 !.setRefresh = Some(refreshTok),
                                 !.data = Some(ApiResponseData(newUser, accessTok,
                                                               refreshTok)),
                                 !.removed = redisDelReply(redis, RegisterKey(email))
                                     + redisDelReply(redis, RegisterRateKey(email))]
             /\ UNCHANGED <<calls, now, ticks>>

\* loginOutcome without the password comparison
loginOutcomeNoPasswordCheck(email, password) ==
    LET found == findByEmail(email)
        user == users[CHOOSE i \in found : TRUE]
    IN  IF found = {} THEN NotFound
        ELSE IF ~user.isVerified THEN NotVerified
        ELSE Ok(200, "User logged in successfully.")

\* POST /login: the checks of the handler, in order, and what it answers
loginOutcome(email, password) ==
    LET found == findByEmail(email)
        user == users[CHOOSE i \in found : TRUE]
    IN  IF found = {} THEN NotFound
        ELSE IF ~user.isVerified THEN NotVerified
        ELSE IF ~validatePassword(user, password) THEN IncorrectPassword
        ELSE Ok(200, "User logged in successfully.")

\* the handler sets neither status nor lastSeen
loginUser(email, password) ==
    LET req == Request("login", email, NoStr, password, NoStr, None)
        out == loginOutcome(email, password)
        user == users[CHOOSE i \in findByEmail(email) : TRUE]
        accessTok == createAccessToken(user)
        refreshTok == createRefreshToken(user)
    IN  IF out.threw # "none"
        THEN /\ res' = Reply(req, out)
             /\ UNCHANGED <<calls, users, redis, now, ticks, issuedRefresh, issuedAccess>>
        ELSE /\ CanIssue(issuedRefresh, refreshTok) /\ CanIssue(issuedAccess, accessTok)
             /\ redis' = redisSet(redis, RefreshKey(user.id), hashRefreshToken(refreshTok),
                                  REFRESH_TTL)
             /\ issuedAccess' = issuedAccess \cup {accessTok}
             /\ issuedRefresh' = issuedRefresh \cup {refreshTok}
             /\ res' = [Reply(req, out)
                          EXCEPT !.setAccess = Some(accessTok),
                                 !.setRefresh = Some(refreshTok),
                                 !.data = Some(ApiResponseData(user, accessTok,
                                                               refreshTok))]
             /\ UNCHANGED <<calls, users, now, ticks>>

\* a gate that also asks for the session record of the account
authValidatorWithSession(token) ==
    IF token = None THEN NoAccessToken
    ELSE IF jwtVerify(token[1], "ACCESS") = "TokenExpiredError" THEN AccessTokenExpired
    ELSE IF jwtVerify(token[1], "ACCESS") # "ok" THEN InvalidAccessToken
    ELSE IF findById(token[1].id) = {} THEN InvalidAccessToken
    ELSE IF redisGet(redis, RefreshKey(token[1].id)) = None THEN InvalidAccessToken
    ELSE Ok(200, "next")

\* middlewares/auth-middleware.js: the outcome of the gate for the accessToken cookie
authValidator(token) ==
    IF token = None THEN NoAccessToken
    ELSE IF jwtVerify(token[1], "ACCESS") = "TokenExpiredError" THEN AccessTokenExpired
    ELSE IF jwtVerify(token[1], "ACCESS") # "ok" THEN InvalidAccessToken
    \* "user not found" is thrown inside the try and rethrown by its catch
    ELSE IF findById(token[1].id) = {} THEN InvalidAccessToken
    ELSE Ok(200, "next")

\* GET /logout: authValidator, then logoutUser
logoutUser(token) ==
    LET req == Request("logout", NoStr, NoStr, NoStr, NoStr, token)
        gate == authValidator(token)
        id == token[1].id
    IN  IF gate.threw # "none"
        THEN /\ res' = Reply(req, gate)
             /\ UNCHANGED <<calls, users, redis, now, ticks, issuedRefresh, issuedAccess>>
        ELSE /\ users' = [i \in UserIdx |->
                            IF users[i].id = id
                            THEN [users[i] EXCEPT !.status = "offline", !.lastSeen = now]
                            ELSE users[i]]
             /\ redis' = redisDel(redis, RefreshKey(id))
             /\ res' = [Reply(req, Ok(200, "logged out successfully."))
                          EXCEPT !.cleared = TRUE,
                                 !.removed = redisDelReply(redis, RefreshKey(id))]
             /\ UNCHANGED <<calls, now, ticks, issuedRefresh, issuedAccess>>

\* refreshOutcome without the check that a session record exists: the null read
\* falls through to the hash comparison
refreshOutcomeNoSessionCheck(token) ==
    LET verified == jwtVerify(token[1], "REFRESH")
        userId == token[1].id
        storedHashedToken == redisGet(redis, RefreshKey(userId))
    IN  IF token = None THEN NoRefreshToken
        ELSE IF verified # "ok" THEN Thrown(verified)
        ELSE IF storedHashedToken # Some(hashRefreshToken(token[1])) THEN PossibleReuseAttack
        ELSE IF findById(userId) = {} THEN NotFound
        ELSE Ok(200, "Access token refreshed successfully")

\* POST /refresh: the checks of the handler, in order, and what it answers
refreshOutcome(token) ==
    LET verified == jwtVerify(token[1], "REFRESH")
        userId == token[1].id
        storedHashedToken == redisGet(redis, RefreshKey(userId))
    IN  IF token = None THEN NoRefreshToken
        \* jwt.verify throws; nothing in the handler catches it
        ELSE IF verified # "ok" THEN Thrown(verified)
        ELSE IF storedHashedToken = None THEN SessionExpired
        ELSE IF storedHashedToken[1] # hashRefreshToken(token[1]) THEN PossibleReuseAttack
        ELSE IF findById(userId) = {} THEN NotFound
        ELSE Ok(200, "Access token refreshed successfully")

\* a /refresh that rotates: it also issues a new refresh token and stores its hash
refreshTokenRotating(token) ==
    LET req == Request("refresh", NoStr, NoStr, NoStr, NoStr, token)
        out == refreshOutcome(token)
        user == users[CHOOSE i \in findById(token[1].id) : TRUE]
        newAccessToken == createAccessToken(user)
        newRefreshToken == createRefreshToken(user)
    IN  IF out.threw # "none"
        THEN /\ res' = Reply(req, out)
             /\ UNCHANGED <<calls, users, redis, now, ticks, issuedRefresh, issuedAccess>>
        ELSE /\ CanIssue(issuedAccess, newAccessToken)
             /\ redis' = redisSet(redis, RefreshKey(user.id),
                                  hashRefreshToken(newRefreshToken), REFRESH_TTL)
             /\ issuedAccess' = issuedAccess \cup {newAccessToken}
             /\ issuedRefresh' = issuedRefresh \cup {newRefreshToken}
             /\ res' = [Reply(req, out) EXCEPT !.setAccess = Some(newAccessToken),
                                               !.setRefresh = Some(newRefreshToken)]
             /\ UNCHANGED <<calls, users, now, ticks>>

refreshToken(token) ==
    LET req == Request("refresh", NoStr, NoStr, NoStr, NoStr, token)
        out == refreshOutcome(token)
        newAccessToken ==
            createAccessToken(users[CHOOSE i \in findById(token[1].id) : TRUE])
    IN  IF out.threw # "none"
        THEN /\ res' = Reply(req, out)
             /\ UNCHANGED <<calls, users, redis, now, ticks, issuedRefresh, issuedAccess>>
        ELSE /\ CanIssue(issuedAccess, newAccessToken)
             /\ issuedAccess' = issuedAccess \cup {newAccessToken}
             /\ res' = [Reply(req, out) EXCEPT !.setAccess = Some(newAccessToken)]
             /\ UNCHANGED <<calls, users, redis, now, ticks, issuedRefresh>>

\* an update that reaches no document
findOneAndUpdateNoMatch(us, email, hashedPassword) == us

\* an operation that removes the document it matches
findOneAndRemove(us, email, hashedPassword) == SelectSeq(us, LAMBDA u : u.email # email)

\* an update whose filter matches every document
findOneAndUpdateEveryone(us, email, hashedPassword) ==
    [i \in 1..Len(us) |-> [us[i] EXCEPT !.password = hashedPassword]]

\* User.findOneAndUpdate({ email }, { password: hashedPassword })
findOneAndUpdatePassword(us, email, hashedPassword) ==
    [i \in 1..Len(us) |->
        IF us[i].email = email THEN [us[i] EXCEPT !.password = hashedPassword] ELSE us[i]]

\* forgotPasswordOutcome without the cooldown check
forgotPasswordOutcomeNoRateLimit(email) ==
    IF findByEmail(email) = {} THEN NotFound
    ELSE Ok(200, "OTP sent to email")

\* POST /forgotpassword: the checks of the handler, in order, and what it answers
forgotPasswordOutcome(email) ==
    IF findByEmail(email) = {} THEN NotFound
    ELSE IF redisGet(redis, ResetRateKey(email)) # None THEN ResetRateLimited
    ELSE Ok(200, "OTP sent to email")

\* otp: the code generateOTP() draws; added: whether the queue takes the mail job
forgotPasswordEnqueue(email, otp, added) ==
    LET req == Request("forgotPassword", email, NoStr, NoStr, NoStr, None)
        out == forgotPasswordOutcome(email)
        user == users[CHOOSE i \in findByEmail(email) : TRUE]
    IN  IF out.threw # "none"
        THEN /\ res' = Reply(req, out)
             /\ UNCHANGED <<calls, users, redis, now, ticks, issuedRefresh, issuedAccess>>
        ELSE /\ redis' = redisSet(redisSet(redis, ResetKey(email),
                                           JSONstringify([otp |-> otp]), RESET_TTL),
                                  ResetRateKey(email), "true", RATELIMIT_TTL)
             /\ res' = [Reply(req, emailQueueAdd(out, added))
                          EXCEPT !.job = Some([name |-> "sendResetPasswordMail",
                                               email |-> email,
                                               subject |-> "Reset Password OTP",
                                               username |-> user.username, otp |-> otp]),
                                 !.enqueue = Some(Settled(added))]
             /\ UNCHANGED <<calls, users, now, ticks, issuedRefresh, issuedAccess>>

\* POST /forgotpassword when the queue takes the job
forgotPassword(email, otp) == forgotPasswordEnqueue(email, otp, TRUE)

\* verifyForgotPasswordOtpOutcome without the comparison of the submitted code
verifyForgotPasswordOtpOutcomeAnyCode(email, password, otp) ==
    LET redisData == redisGet(redis, ResetKey(email))
    IN  IF email = NoStr \/ password = NoStr \/ otp = NoStr THEN ResetFieldsMissing
        ELSE IF redisData = None THEN Expired
        ELSE Ok(200, "Password reset successfully")

\* POST /verify-forgotpassword-otp: the checks of the handler, in order, and what it
\* answers
verifyForgotPasswordOtpOutcome(email, password, otp) ==
    LET redisData == redisGet(redis, ResetKey(email))
        savedOtp == JSONparse(redisData[1]).otp
    IN  IF email = NoStr \/ password = NoStr \/ otp = NoStr THEN ResetFieldsMissing
        ELSE IF redisData = None THEN Expired
        ELSE IF savedOtp # otp THEN InvalidOtp
        ELSE Ok(200, "Password reset successfully")

\* a handler that updates the password and leaves the ticket and the marker behind
verifyForgotPasswordOtpNoCleanup(email, password, otp) ==
    LET req == Request("verifyForgotPasswordOtp", email, NoStr, password, otp, None)
        out == verifyForgotPasswordOtpOutcome(email, password, otp)
    IN  IF out.threw # "none"
        THEN /\ res' = Reply(req, out)
             /\ UNCHANGED <<calls, users, redis, now, ticks, issuedRefresh, issuedAccess>>
        ELSE /\ users' = findOneAndUpdatePassword(users, email, bcryptHash(password))
             /\ res' = Reply(req, out)
             /\ UNCHANGED <<calls, redis, now, ticks, issuedRefresh, issuedAccess>>

\* a handler that also ends the session of the account
verifyForgotPasswordOtpRevoking(email, password, otp) ==
    LET req == Request("verifyForgotPasswordOtp", email, NoStr, password, otp, None)
        out == verifyForgotPasswordOtpOutcome(email, password, otp)
        user == users[CHOOSE i \in findByEmail(email) : TRUE]
    IN  IF out.threw # "none"
        THEN /\ res' = Reply(req, out)
             /\ UNCHANGED <<calls, users, redis, now, ticks, issuedRefresh, issuedAccess>>
        ELSE /\ users' = findOneAndUpdatePassword(users, email, bcryptHash(password))
             /\ redis' = redisDel(redisDel(redisDel(redis, ResetKey(email)),
                                          ResetRateKey(email)), RefreshKey(user.id))
             /\ res' = [Reply(req, out)
                          EXCEPT !.removed = redisDelReply(redis, ResetKey(email))
                                     + redisDelReply(redis, ResetRateKey(email))]
             /\ UNCHANGED <<calls, now, ticks, issuedRefresh, issuedAccess>>

verifyForgotPasswordOtp(email, password, otp) ==
    LET req == Request("verifyForgotPasswordOtp", email, NoStr, password, otp, None)
        out == verifyForgotPasswordOtpOutcome(email, password, otp)
    IN  IF out.threw # "none"
        THEN /\ res' = Reply(req, out)
             /\ UNCHANGED <<calls, users, redis, now, ticks, issuedRefresh, issuedAccess>>
        ELSE /\ users' = findOneAndUpdatePassword(users, email, bcryptHash(password))
             /\ redis' = redisDel(redisDel(redis, ResetKey(email)), ResetRateKey(email))
             /\ res' = [Reply(req, out)
                          EXCEPT !.removed = redisDelReply(redis, ResetKey(email))
                                     + redisDelReply(redis, ResetRateKey(email))]
             /\ UNCHANGED <<calls, now, ticks, issuedRefresh, issuedAccess>>

\* d seconds pass; Redis drops the keys whose EX time has elapsed
Advance(d, bound) ==
    /\ ticks < bound
    /\ now' = now + d
    /\ ticks' = ticks + 1
    /\ redis' = redisExpire(redis, now + d)
    /\ UNCHANGED <<calls, users, issuedRefresh, issuedAccess, res>>

----------------------------------------------------------------------------
(* The handlers of /register and /verify-otp await by await: Node runs the code    *)
(* between two awaits without interruption and may serve another request at each   *)
(* await. calls[c].pc names the await the handler of request c is suspended at.    *)

\* a new request takes the first free slot
Accept(c) == calls[c].pc = "idle" /\ \A b \in Calls : b < c => calls[b].pc # "idle"
Suspend(c, slot) == calls' = [calls EXCEPT ![c] = slot]
Finish(c) == calls' = [calls EXCEPT ![c] = Idle]
CallRequest(c, op) ==
    Request(op, calls[c].email, calls[c].username, calls[c].password,
            IF op = "verifyOtp" THEN calls[c].otp ELSE NoStr, None)

\* registerUser: await User.findOne({ $or: [{ username }, { email }] })
registerFindOne(c, username, email, password, otp) ==
    /\ Accept(c)
    /\ IF findByUsernameOrEmail(username, email) # {}
       THEN /\ res' = Reply(Request("register", email, username, password, NoStr, None),
                            Conflict)
            /\ UNCHANGED calls
       ELSE /\ Suspend(c, [Idle EXCEPT !.pc = "registerGetRate", !.email = email,
                                       !.username = username, !.password = password,
                                       !.otp = otp])
            /\ UNCHANGED res
    /\ UNCHANGED <<users, redis, now, ticks, issuedRefresh, issuedAccess>>

\* a cooldown check that arms the marker in the same round trip
registerGetRateArming(c) ==
    /\ calls[c].pc = "registerGetRate"
    /\ IF redisGet(redis, RegisterRateKey(calls[c].email)) # None
       THEN /\ res' = Reply(CallRequest(c, "register"), RateLimited)
            /\ Finish(c)
            /\ UNCHANGED redis
       ELSE /\ redis' = redisSet(redis, RegisterRateKey(calls[c].email), "true",
                                 RATELIMIT_TTL)
            /\ Suspend(c, [calls[c] EXCEPT !.pc = "registerSetTicket"])
            /\ UNCHANGED res
    /\ UNCHANGED <<users, now, ticks, issuedRefresh, issuedAccess>>

\* registerUser: await redisClient.get(ratelimitKey)
registerGetRate(c) ==
    /\ calls[c].pc = "registerGetRate"
    /\ IF redisGet(redis, RegisterRateKey(calls[c].email)) # None
       THEN /\ res' = Reply(CallRequest(c, "register"), RateLimited)
            /\ Finish(c)
       ELSE /\ Suspend(c, [calls[c] EXCEPT !.pc = "registerSetTicket"])
            /\ UNCHANGED res
    /\ UNCHANGED <<users, redis, now, ticks, issuedRefresh, issuedAccess>>

\* registerUser: await redisClient.set(`register:${email}`, ..., "EX", 300)
registerSetTicket(c) ==
    /\ calls[c].pc = "registerSetTicket"
    /\ redis' = redisSet(redis, RegisterKey(calls[c].email),
                         JSONstringify([username |-> calls[c].username,
                                        email |-> calls[c].email,
                                        password |-> calls[c].password,
                                        otp |-> calls[c].otp]), REGISTER_TTL)
    /\ Suspend(c, [calls[c] EXCEPT !.pc = "registerSetMarker"])
    /\ UNCHANGED <<users, now, ticks, issuedRefresh, issuedAccess, res>>

\* registerUser: await redisClient.set(ratelimitKey, "true", "EX", 60), the mail job
\* and the response
registerSetMarker(c) ==
    /\ calls[c].pc = "registerSetMarker"
    /\ redis' = redisSet(redis, RegisterRateKey(calls[c].email), "true", RATELIMIT_TTL)
    /\ res' = [Reply(CallRequest(c, "register"), Ok(200, "OTP sent to your email."))
                 EXCEPT !.job = Some([name |-> "sendMail", email |-> calls[c].email,
                                      subject |-> "OTP Verification",
                                      username |-> calls[c].username,
                                      otp |-> calls[c].otp]),
                        !.enqueue = Some(Settled(TRUE))]
    /\ Finish(c)
    /\ UNCHANGED <<users, now, ticks, issuedRefresh, issuedAccess>>

\* verifyOtp: await redisClient.get(`register:${email}`) and the comparison of the code
verifyOtpGet(c, email, otp) ==
    LET req == Request("verifyOtp", email, NoStr, NoStr, otp, None)
        tempUserData == redisGet(redis, RegisterKey(email))
        parsedUserData == JSONparse(tempUserData[1])
    IN  /\ Accept(c)
        /\ IF email = NoStr \/ otp = NoStr
           THEN res' = Reply(req, OtpMissing) /\ UNCHANGED calls
           ELSE IF tempUserData = None
           THEN res' = Reply(req, Expired) /\ UNCHANGED calls
           ELSE IF parsedUserData.otp # otp
           THEN res' = Reply(req, InvalidOtp) /\ UNCHANGED calls
           ELSE /\ Suspend(c, [Idle EXCEPT !.pc = "verifyOtpFindOne", !.email = email,
                                           !.otp = otp, !.data = Some(parsedUserData)])
                /\ UNCHANGED res
        /\ UNCHANGED <<users, redis, now, ticks, issuedRefresh, issuedAccess>>

\* verifyOtp: await User.findOne({ email })
verifyOtpFindOne(c) ==
    /\ calls[c].pc = "verifyOtpFindOne"
    /\ Suspend(c, [calls[c] EXCEPT !.pc = IF findByEmail(calls[c].email) # {}
                                          THEN "verifyOtpDelConflict"
                                          ELSE "verifyOtpCreate"])
    /\ UNCHANGED <<users, redis, now, ticks, issuedRefresh, issuedAccess, res>>

\* a refusal that leaves the staged entry in place
verifyOtpConflictKeepsTicket(c) ==
    /\ calls[c].pc = "verifyOtpDelConflict"
    /\ res' = Reply(CallRequest(c, "verifyOtp"), VerifyConflict)
    /\ Finish(c)
    /\ UNCHANGED <<users, redis, now, ticks, issuedRefresh, issuedAccess>>

\* verifyOtp: await redisClient.del(`register:${email}`), then "User already exists"
verifyOtpDelConflict(c) ==
    /\ calls[c].pc = "verifyOtpDelConflict"
    /\ redis' = redisDel(redis, RegisterKey(calls[c].email))
    /\ res' = [Reply(CallRequest(c, "verifyOtp"), VerifyConflict)
                 EXCEPT !.removed = redisDelReply(redis, RegisterKey(calls[c].email))]
    /\ Finish(c)
    /\ UNCHANGED <<users, now, ticks, issuedRefresh, issuedAccess>>

\* verifyOtp: await bcrypt.hash(...), await User.create(...); the unique indexes of
\* the collection decide, atomically with the insertion
verifyOtpCreate(c) ==
    LET parsedUserData == calls[c].data[1]
        newUser == UserCreate(parsedUserData)
    IN  /\ calls[c].pc = "verifyOtpCreate"
        /\ IF duplicateKey(parsedUserData.username, parsedUserData.email)
           THEN /\ res' = Reply(CallRequest(c, "verifyOtp"), Thrown("MongoServerError"))
                /\ Finish(c)
                /\ UNCHANGED users
           ELSE /\ users' = Append(users, newUser)
                /\ Suspend(c, [calls[c] EXCEPT !.pc = "verifyOtpSetRefresh",
                                               !.id = newUser.id])
                /\ UNCHANGED res
        /\ UNCHANGED <<redis, now, ticks, issuedRefresh, issuedAccess>>

\* verifyOtp: the two tokens and await redisClient.set(`refresh:${newUser._id}`, ...)
verifyOtpSetRefresh(c) ==
    LET newUser == users[CHOOSE i \in UserIdx : users[i].id = calls[c].id]
        accessTok == createAccessToken(newUser)
        refreshTok == createRefreshToken(newUser)
    IN  /\ calls[c].pc = "verifyOtpSetRefresh"
        /\ redis' = redisSet(redis, RefreshKey(newUser.id), hashRefreshToken(refreshTok),
                             REFRESH_TTL)
        /\ Suspend(c, [calls[c] EXCEPT !.pc = "verifyOtpDelTicket",
                                       !.access = Some(accessTok),
                                       !.refresh = Some(refreshTok)])
        /\ UNCHANGED <<users, now, ticks, issuedRefresh, issuedAccess, res>>

\* verifyOtp: await redisClient.del(`register:${email}`)
verifyOtpDelTicket(c) ==
    /\ calls[c].pc = "verifyOtpDelTicket"
    /\ redis' = redisDel(redis, RegisterKey(calls[c].email))
    /\ Suspend(c, [calls[c] EXCEPT !.pc = "verifyOtpDelMarker"])
    /\ UNCHANGED <<users, now, ticks, issuedRefresh, issuedAccess, res>>

\* verifyOtp: await redisClient.del(`register:ratelimit:${email}`), the cookies and
\* the response
verifyOtpDelMarker(c) ==
    /\ calls[c].pc = "verifyOtpDelMarker"
    /\ redis' = redisDel(redis, RegisterRateKey(calls[c].email))
    /\ issuedAccess' = issuedAccess \cup {calls[c].access[1]}
    /\ issuedRefresh' = issuedRefresh \cup {calls[c].refresh[1]}
    /\ res' = [Reply(CallRequest(c, "verifyOtp"),
                     Ok(201, "User verified and logged in successfully."))
                 EXCEPT !.password = calls[c].data[1].password,
                        !.setAccess = calls[c].access,
                        !.setRefresh = calls[c].refresh,
                        !.data = Some(ApiResponseData(
                                     users[CHOOSE i \in findById(calls[c].id) : TRUE],
                                     calls[c].access[1], calls[c].refresh[1])),
                        !.removed = redisDelReply(redis, RegisterRateKey(calls[c].email))]
    /\ Finish(c)
    /\ UNCHANGED <<users, now, ticks>>

\* forgotPassword: await User.findOne({ email }); the slot keeps user.username
forgotPasswordFindOne(c, email, otp) ==
    LET found == findByEmail(email)
    IN  /\ Accept(c)
        /\ IF found = {}
           THEN /\ res' = Reply(Request("forgotPassword", email, NoStr, NoStr, NoStr, None),
                                NotFound)
                /\ UNCHANGED calls
           ELSE /\ Suspend(c, [Idle EXCEPT
                                 !.pc = "forgotPasswordGetRate", !.email = email,
                                 !.username = users[CHOOSE i \in found : TRUE].username,
                                 !.otp = otp])
                /\ UNCHANGED res
        /\ UNCHANGED <<users, redis, now, ticks, issuedRefresh, issuedAccess>>

\* forgotPassword: await redisClient.get(ratelimitKey)
forgotPasswordGetRate(c) ==
    /\ calls[c].pc = "forgotPasswordGetRate"
    /\ IF redisGet(redis, ResetRateKey(calls[c].email)) # None
       THEN /\ res' = Reply(Request("forgotPassword", calls[c].email, NoStr, NoStr, NoStr,
                                    None), ResetRateLimited)
            /\ Finish(c)
       ELSE /\ Suspend(c, [calls[c] EXCEPT !.pc = "forgotPasswordSetTicket"])
            /\ UNCHANGED res
    /\ UNCHANGED <<users, redis, now, ticks, issuedRefresh, issuedAccess>>

\* forgotPassword: await redisClient.set(`reset:${email}`, ..., "EX", 300)
forgotPasswordSetTicket(c) ==
    /\ calls[c].pc = "forgotPasswordSetTicket"
    /\ redis' = redisSet(redis, ResetKey(calls[c].email),
                         JSONstringify([otp |-> calls[c].otp]), RESET_TTL)
    /\ Suspend(c, [calls[c] EXCEPT !.pc = "forgotPasswordSetMarker"])
    /\ UNCHANGED <<users, now, ticks, issuedRefresh, issuedAccess, res>>

\* forgotPassword: await redisClient.set(ratelimitKey, "true", "EX", 60), the mail job
\* and the response
forgotPasswordSetMarker(c) ==
    /\ calls[c].pc = "forgotPasswordSetMarker"
    /\ redis' = redisSet(redis, ResetRateKey(calls[c].email), "true", RATELIMIT_TTL)
    /\ res' = [Reply(Request("forgotPassword", calls[c].email, NoStr, NoStr, NoStr, None),
                     Ok(200, "OTP sent to email"))
                 EXCEPT !.job = Some([name |-> "sendResetPasswordMail",
                                      email |-> calls[c].email,
                                      subject |-> "Reset Password OTP",
                                      username |-> calls[c].username,
                                      otp |-> calls[c].otp]),
                        !.enqueue = Some(Settled(TRUE))]
    /\ Finish(c)
    /\ UNCHANGED <<users, now, ticks, issuedRefresh, issuedAccess>>

\* refreshToken: the cookie, jwt.verify, await redisClient.get(`refresh:${userId}`) and
\* the comparison of the hashes; the slot keeps the presented token
refreshTokenGet(c, token) ==
    LET req == Request("refresh", NoStr, NoStr, NoStr, NoStr, token)
        verified == jwtVerify(token[1], "REFRESH")
        userId == token[1].id
        storedHashedToken == redisGet(redis, RefreshKey(userId))
    IN  /\ Accept(c)
        /\ IF token = None
           THEN res' = Reply(req, NoRefreshToken) /\ UNCHANGED calls
           ELSE IF verified # "ok"
           THEN res' = Reply(req, Thrown(verified)) /\ UNCHANGED calls
           ELSE IF storedHashedToken = None
           THEN res' = Reply(req, SessionExpired) /\ UNCHANGED calls
           ELSE IF storedHashedToken[1] # hashRefreshToken(token[1])
           THEN res' = Reply(req, PossibleReuseAttack) /\ UNCHANGED calls
           ELSE /\ Suspend(c, [Idle EXCEPT !.pc = "refreshTokenFindById",
                                           !.id = userId, !.refresh = token])
                /\ UNCHANGED res
        /\ UNCHANGED <<users, redis, now, ticks, issuedRefresh, issuedAccess>>

\* a second read of the session record before the cookie is set
refreshTokenFindByIdRechecking(c) ==
    LET req == Request("refresh", NoStr, NoStr, NoStr, NoStr, calls[c].refresh)
        newAccessToken ==
            createAccessToken(users[CHOOSE i \in findById(calls[c].id) : TRUE])
    IN  /\ calls[c].pc = "refreshTokenFindById"
        /\ IF redisGet(redis, RefreshKey(calls[c].id))
                 # Some(hashRefreshToken(calls[c].refresh[1]))
           THEN /\ res' = Reply(req, SessionExpired)
                /\ UNCHANGED <<issuedAccess>>
           ELSE /\ CanIssue(issuedAccess, newAccessToken)
                /\ issuedAccess' = issuedAccess \cup {newAccessToken}
                /\ res' = [Reply(req, Ok(200, "Access token refreshed successfully"))
                             EXCEPT !.setAccess = Some(newAccessToken)]
        /\ Finish(c)
        /\ UNCHANGED <<users, redis, now, ticks, issuedRefresh>>

\* refreshToken: await User.findById(userId), the new access token, its cookie and
\* the response
refreshTokenFindById(c) ==
    LET req == Request("refresh", NoStr, NoStr, NoStr, NoStr, calls[c].refresh)
        newAccessToken ==
            createAccessToken(users[CHOOSE i \in findById(calls[c].id) : TRUE])
    IN  /\ calls[c].pc = "refreshTokenFindById"
        /\ IF findById(calls[c].id) = {}
           THEN /\ res' = Reply(req, NotFound)
                /\ UNCHANGED <<issuedAccess>>
           ELSE /\ CanIssue(issuedAccess, newAccessToken)
                /\ issuedAccess' = issuedAccess \cup {newAccessToken}
                /\ res' = [Reply(req, Ok(200, "Access token refreshed successfully"))
                             EXCEPT !.setAccess = Some(newAccessToken)]
        /\ Finish(c)
        /\ UNCHANGED <<users, redis, now, ticks, issuedRefresh>>

----------------------------------------------------------------------------
\* the cookies a client can present: none, or a token some response has set
Cookies == {None} \cup {Some(t) : t \in issuedRefresh \cup issuedAccess}

\* Registration scenario: two people, two mailboxes, registration and login only;
\* short time steps (inside and past the 60 s cooldown, past the 300 s ticket)
RegistrationSteps == {30, 270}
NextRegistration ==
    \/ \E u \in Usernames, e \in Emails, o \in OTPs : registerUser(u, e, "Abc123!", o)
    \/ \E e \in Emails, o \in OTPs \cup {NoStr} : verifyOtp(e, o)
    \/ \E e \in Emails, p \in Passwords : loginUser(e, p)
    \/ \E d \in RegistrationSteps : Advance(d, MaxTicks)

Spec == Init /\ [][NextRegistration]_vars

\* Session scenario: accounts are registered with fixed credentials; time steps of
\* an access token's life and of a refresh token's / refresh record's life
SessionSteps == {900, 604800}
NextSession ==
    \/ \E e \in Emails : registerUser(IF e = "a@x.com" THEN "alice" ELSE "bob", e,
                                      "Abc123!", "111111")
    \/ \E e \in Emails : verifyOtp(e, "111111")
    \/ \E e \in Emails, p \in Passwords : loginUser(e, p)
    \/ \E c \in Cookies : logoutUser(c)
    \/ \E c \in Cookies : refreshToken(c)
    \/ forgotPassword("a@x.com", "111111")
    \/ verifyForgotPasswordOtp("a@x.com", "Xyz789!", "111111")
    \/ \E d \in SessionSteps : Advance(d, MaxSessionTicks)

SpecSession == Init /\ [][NextSession]_vars

\* Password-reset scenario: one registered person, one mailbox that is staged at most
\* and never gets an account
ResetSteps == {30, 270}
NextReset ==
    \/ \E e \in Emails : registerUser(IF e = "a@x.com" THEN "alice" ELSE "bob", e,
                                      "Abc123!", "111111")
    \/ verifyOtp("a@x.com", "111111")
    \/ \E e \in Emails, p \in Passwords : loginUser(e, p)
    \/ \E c \in Cookies : refreshToken(c)
    \/ \E e \in Emails, o \in OTPs : forgotPassword(e, o)
    \/ \E e \in Emails, p \in Passwords, o \in OTPs : verifyForgotPasswordOtp(e, p, o)
    \/ \E d \in ResetSteps : Advance(d, MaxTicks)

SpecReset == Init /\ [][NextReset]_vars

\* OTP issuance scenario: both flows that issue a code, with every payload
IssuanceSteps == {30, 270}
NextIssuance ==
    \/ \E u \in Usernames, e \in Emails, o \in OTPs : registerUser(u, e, "Abc123!", o)
    \/ \E e \in Emails, o \in OTPs : verifyOtp(e, o)
    \/ \E e \in Emails, o \in OTPs : forgotPassword(e, o)
    \/ \E d \in IssuanceSteps : Advance(d, MaxTicks)

SpecIssuance == Init /\ [][NextIssuance]_vars

\* Race scenario: register and verify-otp requests served concurrently, await by
\* await; the clock can pass the 60 s cooldown once
RaceSteps == {60}
\* the password each person types
RacePassword == [u \in Usernames |-> IF u = "alice" THEN "Abc123!" ELSE "Xyz789!"]

NextRace ==
    \/ \E c \in Calls, u \in Usernames, e \in Emails :
           registerFindOne(c, u, e, RacePassword[u], "111111")
    \/ \E c \in Calls : registerGetRate(c)
    \/ \E c \in Calls : registerSetTicket(c)
    \/ \E c \in Calls : registerSetMarker(c)
    \/ \E c \in Calls, e \in Emails : verifyOtpGet(c, e, "111111")
    \/ \E c \in Calls : verifyOtpFindOne(c)
    \/ \E c \in Calls : verifyOtpDelConflict(c)
    \/ \E c \in Calls : verifyOtpCreate(c)
    \/ \E c \in Calls : verifyOtpSetRefresh(c)
    \/ \E c \in Calls : verifyOtpDelTicket(c)
    \/ \E c \in Calls : verifyOtpDelMarker(c)
    \/ \E d \in RaceSteps : Advance(d, MaxRaceTicks)

SpecRace == Init /\ [][NextRace]_vars

\* Issuance race scenario: requests of one person for one mailbox; the two handlers
\* that issue a code are served concurrently, await by await, each request with its
\* own code, and the two verifications are served between them without
\* interruption; no time passes, so that every request falls into one cooldown window
RaceEmail == "a@x.com"

NextIssuanceRace ==
    \/ \E c \in Calls, o \in OTPs : registerFindOne(c, "alice", RaceEmail, "Abc123!", o)
    \/ \E c \in Calls : registerGetRate(c)
    \/ \E c \in Calls : registerSetTicket(c)
    \/ \E c \in Calls : registerSetMarker(c)
    \/ \E o \in OTPs : verifyOtp(RaceEmail, o)
    \/ \E c \in Calls, o \in OTPs : forgotPasswordFindOne(c, RaceEmail, o)
    \/ \E c \in Calls : forgotPasswordGetRate(c)
    \/ \E c \in Calls : forgotPasswordSetTicket(c)
    \/ \E c \in Calls : forgotPasswordSetMarker(c)
    \/ \E o \in OTPs : verifyForgotPasswordOtp(RaceEmail, "Xyz789!", o)

SpecIssuanceRace == Init /\ [][NextIssuanceRace]_vars

\* Re-issuance scenario: one person stages a registration, waits out the cooldown,
\* stages again under another username (and so another password) and gets another
\* code, then verifies; with the account, the person requests a reset code, waits
\* out the cooldown, requests another and submits one. The last request (res.op,
\* res.at) and the accounts tell how far the scenario is.
ReissueSteps == {60}
NextReissue ==
    \/ /\ res.op = "start" /\ now = 0
       /\ \E u \in Usernames, e \in Emails, o \in OTPs :
              registerUser(u, e, RacePassword[u], o)
    \/ /\ res.op = "register" /\ res.at = 0 /\ res.at < now
       /\ \E u \in Usernames \ {res.username}, o \in OTPs \ {res.job[1].otp} :
              registerUser(u, res.email, RacePassword[u], o)
    \/ /\ res.op = "register" /\ res.at > 0
       /\ \E o \in OTPs : verifyOtp(res.email, o)
    \/ /\ res.op = "verifyOtp" /\ users = <<>>
       /\ \E o \in OTPs : verifyOtp(res.email, o)
    \/ /\ res.op = "verifyOtp" /\ users # <<>>
       /\ \E o \in OTPs : forgotPassword(users[1].email, o)
    \/ /\ res.op = "forgotPassword" /\ res.at < now
       /\ \E o \in OTPs \ {res.job[1].otp} : forgotPassword(res.email, o)
    \/ /\ res.op = "forgotPassword"
       /\ \E p \in Passwords, o \in OTPs : verifyForgotPasswordOtp(res.email, p, o)
    \/ \E d \in ReissueSteps : Advance(d, MaxTicks)

SpecReissue == Init /\ [][NextReissue]_vars

\* Enqueue scenario: the two handlers that enqueue a mail, with a queue that takes
\* the job or rejects it; one code, and the time steps of the cooldown
EnqueueSteps == {60}
NextEnqueue ==
    \/ \E u \in Usernames, e \in Emails, added \in BOOLEAN :
           registerUserEnqueue(u, e, RacePassword[u], "111111", added)
    \/ \E e \in Emails : verifyOtp(e, "111111")
    \/ \E e \in Emails, added \in BOOLEAN : forgotPasswordEnqueue(e, "111111", added)
    \/ \E d \in EnqueueSteps : Advance(d, MaxTicks)

SpecEnqueue == Init /\ [][NextEnqueue]_vars

\* Self-healing scenario: requests for one mailbox are served await by await; at any
\* moment the requests may stop for good, also with handlers suspended between two
\* writes that never resume (Quiesce); from then on only time passes; the second step
\* of the reset is served without interruption
Quiet == ticks = MaxTicks + 1
Quiesce ==
    /\ ~Quiet
    /\ ticks' = MaxTicks + 1
    /\ UNCHANGED <<calls, users, redis, now, issuedRefresh, issuedAccess, res>>

\* the clock reaches the earliest EX time of the keys that exist, and Redis drops them
TimePasses ==
    /\ Quiet
    /\ \E k \in Keys :
           /\ redis[k] # None
           /\ \A k2 \in Keys : redis[k2] # None => redis[k][1].exp <= redis[k2][1].exp
           /\ now' = redis[k][1].exp
           /\ redis' = redisExpire(redis, redis[k][1].exp)
    /\ UNCHANGED <<calls, users, ticks, issuedRefresh, issuedAccess, res>>

HealSteps == {60}
NextHeal ==
    \/ ~Quiet /\ \E c \in Calls : registerFindOne(c, "alice", RaceEmail, "Abc123!", "111111")
    \/ ~Quiet /\ \E c \in Calls : registerGetRate(c)
    \/ ~Quiet /\ \E c \in Calls : registerSetTicket(c)
    \/ ~Quiet /\ \E c \in Calls : registerSetMarker(c)
    \/ ~Quiet /\ \E c \in Calls : verifyOtpGet(c, RaceEmail, "111111")
    \/ ~Quiet /\ \E c \in Calls : verifyOtpFindOne(c)
    \/ ~Quiet /\ \E c \in Calls : verifyOtpDelConflict(c)
    \/ ~Quiet /\ \E c \in Calls : verifyOtpCreate(c)
    \/ ~Quiet /\ \E c \in Calls : verifyOtpSetRefresh(c)
    \/ ~Quiet /\ \E c \in Calls : verifyOtpDelTicket(c)
    \/ ~Quiet /\ \E c \in Calls : verifyOtpDelMarker(c)
    \/ ~Quiet /\ \E c \in Calls : forgotPasswordFindOne(c, RaceEmail, "111111")
    \/ ~Quiet /\ \E c \in Calls : forgotPasswordGetRate(c)
    \/ ~Quiet /\ \E c \in Calls : forgotPasswordSetTicket(c)
    \/ ~Quiet /\ \E c \in Calls : forgotPasswordSetMarker(c)
    \/ ~Quiet /\ verifyForgotPasswordOtp(RaceEmail, "Xyz789!", "111111")
    \/ ~Quiet /\ \E d \in HealSteps : Advance(d, MaxRaceTicks)
    \/ Quiesce
    \/ TimePasses

\* time does pass
SpecHeal == Init /\ [][NextHeal]_vars /\ WF_vars(TimePasses)

\* Refresh race scenario: one account; /refresh is served await by await, and login
\* and logout, each a single write to refresh:<id>, are served between its steps
RefreshRaceSteps == {60}
NextRefreshRace ==
    \/ registerUser("alice", RaceEmail, "Abc123!", "111111")
    \/ verifyOtp(RaceEmail, "111111")
    \/ loginUser(RaceEmail, "Abc123!")
    \/ \E k \in Cookies : logoutUser(k)
    \/ \E c \in Calls, k \in Cookies : refreshTokenGet(c, k)
    \/ \E c \in Calls : refreshTokenFindById(c)
    \/ \E d \in RefreshRaceSteps : Advance(d, MaxSessionTicks)

SpecRefreshRace == Init /\ [][NextRefreshRace]_vars

\* Journey scenario: one person goes through the routes in order: register, a wrong
\* code, the stored code, login, logout, refresh with the cookie of the login; a few
\* seconds may pass between two requests. The last request (res.op) and the accounts
\* tell how far the journey is.
JourneySteps == {30}
NextJourney ==
    \/ /\ res.op = "start"
       /\ \E u \in Usernames, e \in Emails, o \in OTPs :
              registerUser(u, e, RacePassword[u], o)
    \/ /\ res.op = "register"
       /\ \E o \in OTPs :
              /\ redis[RegisterKey(res.email)] # None
              /\ o # redis[RegisterKey(res.email)][1].val.json.otp
              /\ verifyOtp(res.email, o)
    \/ /\ res.op = "verifyOtp" /\ users = <<>>
       /\ redis[RegisterKey(res.email)] # None
       /\ verifyOtp(res.email, redis[RegisterKey(res.email)][1].val.json.otp)
    \/ /\ res.op = "verifyOtp" /\ users # <<>>
       /\ loginUser(users[1].email, RacePassword[users[1].username])
    \/ /\ res.op = "login"
       /\ logoutUser(res.setAccess)
    \/ /\ res.op = "logout"
       /\ \E t \in issuedRefresh :
              /\ \A t2 \in issuedRefresh : t2.iat <= t.iat
              /\ refreshToken(Some(t))
    \/ \E d \in JourneySteps : Advance(d, MaxTicks)

SpecJourney == Init /\ [][NextJourney]_vars

----------------------------------------------------------------------------
(* Claims about the session: SpecSession *)

AccountOf(id) == users[CHOOSE i \in UserIdx : users[i].id = id]

\* the last request was POST /refresh, just answered, presenting an issued refresh token
RefreshedWithIssued ==
    /\ res.op = "refresh"
    /\ res.at = now
    /\ res.token # None
    /\ res.token[1] \in issuedRefresh

C2_OneAcceptedToken ==
    /\ \A t \in issuedRefresh :
          refreshOutcome(Some(t)).threw = "none"
              => \A t2 \in issuedRefresh : t2.id = t.id => t2.iat <= t.iat
    /\ (RefreshedWithIssued /\ res.setAccess # None)
          => \A t2 \in issuedRefresh : t2.id = res.token[1].id => t2.iat <= res.token[1].iat

\* an older token of the account was refused while the newer one is the accepted one
C2_Witness ==
    /\ RefreshedWithIssued
    /\ res.out.threw = "ApiError"
    /\ res.setAccess = None
    /\ \E t2 \in issuedRefresh :
          /\ t2.id = res.token[1].id
          /\ t2.iat > res.token[1].iat
          /\ refreshOutcome(Some(t2)).threw = "none"

\* The staged registration of an email: the parsed value of register:<email>
StagedTicket(email) == redis[RegisterKey(email)][1].val.json

\* An Account holds this username or this email
AccountHolds(username, email) ==
    \E i \in UserIdx : users[i].username = username \/ users[i].email = email

\* C3: once verifyOtp has succeeded for an email (its Account exists), a further
\* verifyOtp for that email with any code, the consumed one included, is answered
\* "OTP expired or invalid" or "User already exists", creates no Account, writes no
\* refresh:<accountId> record and sets no cookie.
C3_OtpAcceptedOnce ==
    [][\A email \in Emails, otp \in OTPs :
        (verifyOtp(email, otp) /\ \E i \in UserIdx : users[i].email = email)
            => /\ res'.out \in {Expired, VerifyConflict}
               /\ users' = users
               /\ \A id \in {ObjectIds[n] : n \in 1..Len(ObjectIds)} :
                      redis'[RefreshKey(id)] = redis[RefreshKey(id)]
               /\ issuedRefresh' = issuedRefresh /\ issuedAccess' = issuedAccess
               /\ res'.setAccess = None /\ res'.setRefresh = None]_vars

\* a verifyOtp for an email whose Account was created by an earlier verifyOtp has
\* just been refused
C3_Witness ==
    /\ res.op = "verifyOtp" /\ res.at = now /\ res.otp # NoStr
    /\ res.out = Expired
    /\ \E i \in UserIdx : users[i].email = res.email
    /\ res.setAccess = None /\ res.setRefresh = None

\* C4: however register and verify-otp requests interleave, no two Accounts share an
\* email and no Account is removed or altered; a verification that creates the Account
\* makes login with that email accept the raw password of the staged registration it
\* read and refuse every other password; and when verifyOtp answers 201 there is
\* exactly one Account with its email.
C4_OneAccountPerEmail ==
    [][/\ \A i, j \in 1..Len(users') : users'[i].email = users'[j].email => i = j
       /\ \A i \in UserIdx : i <= Len(users') /\ users'[i] = users[i]
       /\ \A c \in Calls, email \in Emails :
            (verifyOtpGet(c, email, "111111") /\ calls'[c].pc # "idle")
                => calls'[c].data = Some(StagedTicket(email))
       /\ \A c \in Calls :
            (verifyOtpCreate(c) /\ users' # users)
                => /\ loginOutcome(calls[c].email, calls[c].data[1].password)'.status = 200
                   /\ \A p \in Passwords \ {calls[c].data[1].password} :
                          loginOutcome(calls[c].email, p)' = IncorrectPassword
       /\ \A c \in Calls :
            verifyOtpDelMarker(c)
                => /\ res'.out.status = 201
                   /\ Cardinality({i \in UserIdx : users[i].email = calls[c].email}) = 1
                   /\ loginOutcome(calls[c].email, calls[c].data[1].password).status = 200]_vars

\* of two verifications of one email running concurrently, the second has just been
\* rejected by the unique index; the email has its one Account, and login accepts the
\* staged password
C4_Witness ==
    /\ res.op = "verifyOtp" /\ res.at = now
    /\ res.out.threw = "MongoServerError"
    /\ Cardinality({i \in UserIdx : users[i].email = res.email}) = 1
    /\ \E i \in UserIdx :
          /\ users[i].email = res.email
          /\ loginOutcome(res.email, RacePassword[users[i].username]).status = 200

\* C5 as stated: while a registration is staged under register:<email> and not yet
\* verified, a registerUser request with the same email or the same username is
\* answered Conflict.
C5_AsStated ==
    [][\A username \in Usernames, email \in Emails, otp \in OTPs :
        (/\ registerUser(username, email, "Abc123!", otp)
         /\ \E e \in Emails : /\ redis[RegisterKey(e)] # None
                              /\ (e = email \/ StagedTicket(e).username = username))
            => res'.out = Conflict]_vars

\* C5 amended: registerUser is answered Conflict exactly when an Account with that
\* username or email exists; a registration that is only staged never causes Conflict:
\* the same email is answered RateLimited while its 60-second marker lives and is
\* re-staged afterwards, and the same username under another email is staged as well.
C5_ConflictOnlyWithAccount ==
    [][\A username \in Usernames, email \in Emails, otp \in OTPs :
        registerUser(username, email, "Abc123!", otp)
            => /\ (res'.out = Conflict) <=> AccountHolds(username, email)
               /\ ~AccountHolds(username, email)
                    => IF redis[RegisterRateKey(email)] # None
                       THEN res'.out = RateLimited
                       ELSE /\ res'.out.status = 200
                            /\ redis'[RegisterKey(email)] # None
                            /\ StagedTicket(email)'.username = username]_vars

\* a registration was accepted while the same username is staged, unverified, under
\* another email
C5_Witness ==
    /\ res.op = "register" /\ res.at = now /\ res.out.status = 200
    /\ users = <<>>
    /\ \E e \in Emails \ {res.email} :
          /\ redis[RegisterKey(e)] # None
          /\ StagedTicket(e).username = res.username

\* C6 as stated: after registerUser has issued an OTP for an email, every further
\* registerUser for that email during the next 60 seconds is answered RateLimited.
\* (An entry register:<email> that still has more than 240 of its 300 seconds to live
\* was staged less than 60 seconds ago.)
C6_AsStated ==
    [][\A username \in Usernames, email \in Emails, otp \in OTPs :
        (/\ registerUser(username, email, "Abc123!", otp)
         /\ redis[RegisterKey(email)] # None
         /\ redis[RegisterKey(email)][1].exp > now + (REGISTER_TTL - RATELIMIT_TTL))
            => res'.out = RateLimited]_vars

\* C6 amended: during the 60 seconds after an OTP was issued for an email the marker
\* register:ratelimit:<email> exists as long as the registration is not verified, and
\* a further registerUser for that email is answered RateLimited without any write,
\* unless an Account with that username or email exists by then, which is answered
\* Conflict first; with no marker and no such Account the request succeeds, stages the
\* new code for 300 seconds, arms the marker for 60 seconds and queues the mail.
C6_RegisterCooldown ==
    [][/\ \A email \in Emails :
            (/\ redis'[RegisterKey(email)] # None
             /\ redis'[RegisterKey(email)][1].exp > now' + (REGISTER_TTL - RATELIMIT_TTL))
                => /\ redis'[RegisterRateKey(email)] # None
                   /\ redis'[RegisterRateKey(email)][1].exp
                          = redis'[RegisterKey(email)][1].exp - (REGISTER_TTL - RATELIMIT_TTL)
       /\ \A username \in Usernames, email \in Emails, otp \in OTPs :
            registerUser(username, email, "Abc123!", otp)
                => IF AccountHolds(username, email)
                   THEN res'.out = Conflict /\ redis' = redis /\ res'.job = None
                   ELSE IF redis[RegisterRateKey(email)] # None
                   THEN res'.out = RateLimited /\ redis' = redis /\ res'.job = None
                   ELSE /\ res'.out.status = 200
                        /\ res'.job # None /\ res'.job[1].otp = otp
                        /\ StagedTicket(email)'.otp = otp
                        /\ redis'[RegisterKey(email)][1].exp = now + 300
                        /\ redis'[RegisterRateKey(email)][1].exp = now + 60]_vars

\* a registerUser arriving 30 seconds after an OTP was issued for its email has just
\* been answered RateLimited
C6_Witness ==
    /\ res.op = "register" /\ res.at = now /\ res.out = RateLimited
    /\ redis[RegisterKey(res.email)] # None
    /\ redis[RegisterKey(res.email)][1].exp = now + 270
    /\ redis[RegisterRateKey(res.email)] # None
    /\ redis[RegisterRateKey(res.email)][1].exp = now + 30

\* C7: a verifyOtp with a code other than the staged one is answered "Invalid OTP" and
\* changes neither the staged registration, the marker, their expiry times nor the
\* accounts; as long as the entry has not expired, a verifyOtp with the staged code
\* creates the Account (no Account holding that username or email), however many
\* mismatches came before.
C7_MismatchKeepsTicket ==
    [][\A email \in Emails, otp \in OTPs :
        (verifyOtp(email, otp) /\ redis[RegisterKey(email)] # None)
            => IF StagedTicket(email).otp # otp
               THEN /\ res'.out = InvalidOtp
                    /\ redis' = redis /\ users' = users
                    /\ issuedRefresh' = issuedRefresh /\ issuedAccess' = issuedAccess
                    /\ res'.setAccess = None /\ res'.setRefresh = None
               ELSE ~AccountHolds(StagedTicket(email).username, email)
                    => /\ res'.out.status = 201
                       /\ Len(users') = Len(users) + 1
                       /\ users'[Len(users')].email = email
                       /\ users'[Len(users')].username = StagedTicket(email).username
                       /\ redis'[RegisterKey(email)] = None]_vars

\* a mismatch has just been answered 30 seconds or more after staging, and the staged
\* entry and its code are still there to be verified
C7_Witness ==
    /\ res.op = "verifyOtp" /\ res.at = now /\ res.out = InvalidOtp
    /\ now > 0
    /\ redis[RegisterKey(res.email)] # None
    /\ StagedTicket(res.email).otp # res.otp
    /\ verifyOtpOutcome(res.email, StagedTicket(res.email).otp).status = 201

C9_LogoutIdempotent ==
    [][\A c \in Cookies :
          (logoutUser(c) /\ res'.out.threw = "none") =>
              LET id == c[1].id IN
              /\ res'.out.status = 200
              /\ res'.cleared
              /\ \E i \in UserIdx :
                    /\ users[i].id = id
                    /\ users' = [users EXCEPT ![i].status = "offline", ![i].lastSeen = now]
              /\ redis' = [redis EXCEPT ![RefreshKey(id)] = None]
              /\ (redis[RefreshKey(id)] = None /\ AccountOf(id).status = "offline")
                    => (redis' = redis /\ \A i \in UserIdx :
                            users'[i] = [users[i] EXCEPT !.lastSeen = users'[i].lastSeen])
      ]_vars

\* a logout that found no refresh record to delete succeeded
C9_Witness ==
    /\ res.op = "logout"
    /\ res.at = now
    /\ res.out.threw = "none"
    /\ res.removed = 0
    /\ res.cleared
    /\ AccountOf(res.token[1].id).status = "offline"
    /\ redis[RefreshKey(res.token[1].id)] = None

\* C10: a /refresh answered PossibleReuseAttack deletes refresh:<accountId>, so that
\* the session is revoked.
C10_ReuseRevokesSession ==
    (RefreshedWithIssued /\ res.out.message = "Invalid refresh token, possible token reuse attack")
        => redis[RefreshKey(res.token[1].id)] = None

\* C11: a step that makes an absent refresh:<accountId> present is a login answered
\* 200 for that account, with the password its stored hash was made from, or the
\* verifyOtp that creates the account; both set the refresh cookie of that account.
\* A step of /refresh, logout, forgotPassword or verifyForgotPasswordOtp never does.
C11_OnlyAuthenticationCreatesSession ==
    [][\A n \in 1..Len(ObjectIds) :
        (redis[RefreshKey(ObjectIds[n])] = None /\ redis'[RefreshKey(ObjectIds[n])] # None)
            => /\ res'.at = now /\ res'.out.threw = "none"
               /\ res'.setRefresh # None /\ res'.setRefresh[1].id = ObjectIds[n]
               /\ \/ /\ res'.op = "login" /\ res'.out.status = 200
                     /\ n <= Len(users) /\ users' = users
                     /\ users[n].email = res'.email
                     /\ users[n].password = [bcrypt |-> res'.password]
                  \/ /\ res'.op = "verifyOtp" /\ res'.out.status = 201
                     /\ Len(users) = n - 1 /\ Len(users') = n
                     /\ users'[n].email = res'.email]_vars

\* a login has just re-created the record of an account that a logout had set offline
C11_Witness ==
    /\ res.op = "login" /\ res.at = now /\ res.out.status = 200
    /\ \E i \in UserIdx : /\ users[i].email = res.email
                          /\ users[i].status = "offline"
                          /\ redis[RefreshKey(users[i].id)] # None
                          /\ res.setRefresh # None /\ res.setRefresh[1].id = users[i].id

\* C12: whatever /refresh answers, it leaves every Redis entry with its expiry time,
\* the accounts and the refresh tokens in circulation as they were and sets no
\* refreshToken cookie; when it answers 200 it sets an accessToken cookie, and the same
\* cookie presented again at once is answered 200 again.
C12_RefreshChangesNothing ==
    [][\A c \in Cookies :
        refreshToken(c)
            => /\ redis' = redis /\ users' = users
               /\ issuedRefresh' = issuedRefresh
               /\ res'.setRefresh = None
               /\ (res'.out.threw = "none")
                    => /\ res'.setAccess # None
                       /\ res'.setAccess[1].id = c[1].id
                       /\ refreshOutcome(c)' = res'.out]_vars

\* a refresh token issued 900 seconds earlier has just been exchanged, and the record
\* still expires 7 days after the token was issued
C12_Witness ==
    /\ RefreshedWithIssued /\ res.out.threw = "none"
    /\ res.token[1].iat < now
    /\ res.setAccess # None /\ res.setAccess[1].iat = now
    /\ redis[RefreshKey(res.token[1].id)]
          = Some([val |-> [sha256 |-> res.token[1]], exp |-> res.token[1].iat + 604800])

\* C13: login is answered 200 exactly when a verified Account with the email exists
\* whose hash was made from the password; then it sets both cookies, stores the hash of
\* the new refresh token under refresh:<id> for 7 days and leaves every other Redis
\* entry and the accounts as they were. Otherwise it is answered "User not found",
\* "Account not verified" or "Incorrect password", and changes no Redis entry, no
\* account, and sets no cookie.
C13_LoginFrame ==
    [][\A email \in Emails, password \in Passwords :
        loginUser(email, password)
            => IF \E i \in UserIdx : /\ users[i].email = email /\ users[i].isVerified
                                     /\ users[i].password = [bcrypt |-> password]
               THEN /\ res'.out.threw = "none" /\ res'.out.status = 200
                    /\ res'.setAccess # None /\ res'.setRefresh # None
                    /\ users' = users
                    /\ \E i \in UserIdx :
                          /\ users[i].email = email
                          /\ res'.setRefresh[1].id = users[i].id
                          /\ res'.setAccess[1].id = users[i].id
                          /\ redis'[RefreshKey(users[i].id)]
                                = Some([val |-> [sha256 |-> res'.setRefresh[1]],
                                        exp |-> now + 604800])
                          /\ \A k \in Keys \ {RefreshKey(users[i].id)} : redis'[k] = redis[k]
               ELSE /\ res'.out = IF \A i \in UserIdx : users[i].email # email
                                  THEN NotFound
                                  ELSE IF \E i \in UserIdx : /\ users[i].email = email
                                                             /\ ~users[i].isVerified
                                  THEN NotVerified
                                  ELSE IncorrectPassword
                    /\ redis' = redis /\ users' = users
                    /\ issuedRefresh' = issuedRefresh /\ issuedAccess' = issuedAccess
                    /\ res'.setAccess = None /\ res'.setRefresh = None]_vars

\* a login has just succeeded while a reset ticket of its email, with its marker, and
\* the staged registration of the other mailbox are in Redis
C13_Witness ==
    /\ res.op = "login" /\ res.at = now /\ res.out.status = 200
    /\ res.setRefresh # None
    /\ redis[ResetKey(res.email)] # None
    /\ redis[ResetRateKey(res.email)] # None
    /\ \E e \in Emails \ {res.email} :
          redis[RegisterKey(e)] # None /\ redis[RegisterRateKey(e)] # None

\* C14: a verifyForgotPasswordOtp answered 200 removes reset:<email> and
\* reset:rateLimit:<email>, leaves every other Redis entry (the refresh records among
\* them) as it was and sets no cookie; the same code submitted again, with any
\* password, is then answered "OTP expired or invalid", and a submission that finds no
\* reset:<email> changes no account.
C14_ResetConsumesTicket ==
    [][\A email \in Emails, password \in Passwords, otp \in OTPs :
        verifyForgotPasswordOtp(email, password, otp)
            => /\ (res'.out.threw = "none")
                    => /\ redis'[ResetKey(email)] = None
                       /\ redis'[ResetRateKey(email)] = None
                       /\ \A k \in Keys \ {ResetKey(email), ResetRateKey(email)} :
                              redis'[k] = redis[k]
                       /\ issuedRefresh' = issuedRefresh /\ issuedAccess' = issuedAccess
                       /\ res'.setAccess = None /\ res'.setRefresh = None
                       /\ \A again \in Passwords :
                              verifyForgotPasswordOtpOutcome(email, again, otp)' = Expired
               /\ (redis[ResetKey(email)] = None)
                    => res'.out = Expired /\ users' = users]_vars

\* within the 300 seconds of the first ticket, after a reset to "Xyz789!", a further
\* submission asking for "Abc123!" has just been answered "OTP expired or invalid"
\* and the hash is still that of "Xyz789!"
C14_Witness ==
    /\ res.op = "verifyForgotPasswordOtp" /\ res.at = now /\ now < 300
    /\ res.out = Expired
    /\ res.password = "Abc123!"
    /\ \E i \in UserIdx : /\ users[i].email = res.email
                          /\ users[i].password = [bcrypt |-> "Xyz789!"]

\* C15: verifyForgotPasswordOtp is answered "OTP expired or invalid" when reset:<email>
\* is absent and "Invalid OTP" when the submitted code differs from the stored one, and
\* then changes no account and no Redis entry or expiry time; with the stored code,
\* while the entry exists, it is answered 200 and stores the hash of the new password,
\* however many mismatches came before.
C15_ResetMismatchKeepsTicket ==
    [][\A email \in Emails, password \in Passwords, otp \in OTPs :
        verifyForgotPasswordOtp(email, password, otp)
            => IF redis[ResetKey(email)] = None
               THEN res'.out = Expired /\ redis' = redis /\ users' = users
               ELSE IF redis[ResetKey(email)][1].val.json.otp # otp
               THEN /\ res'.out = InvalidOtp /\ redis' = redis /\ users' = users
                    /\ verifyForgotPasswordOtpOutcome(
                           email, password, redis[ResetKey(email)][1].val.json.otp)'.status = 200
               ELSE /\ res'.out.status = 200
                    /\ \E i \in UserIdx : /\ users[i].email = email
                                          /\ users'[i].password = [bcrypt |-> password]]_vars

\* 30 seconds or more after the ticket was written a mismatch has just been answered;
\* the ticket and its marker are still there and the stored code would be accepted
C15_Witness ==
    /\ res.op = "verifyForgotPasswordOtp" /\ res.at = now /\ now > 0
    /\ res.out = InvalidOtp
    /\ redis[ResetKey(res.email)] # None
    /\ redis[ResetKey(res.email)][1].val.json.otp # res.otp
    /\ verifyForgotPasswordOtpOutcome(res.email, res.password,
                                      redis[ResetKey(res.email)][1].val.json.otp).status = 200

\* C16: when registerUser finds register:ratelimit:<email>, or forgotPassword finds
\* reset:rateLimit:<email>, whatever else the request carries, no Redis entry and no
\* expiry time changes (no new code, no re-armed marker), no mail job is queued and the
\* request is refused: forgotPassword with 429, registerUser with 429 or, when an
\* Account already holds the username or email, with 409.
C16_MarkerBlocksIssuance ==
    [][/\ \A username \in Usernames, email \in Emails, otp \in OTPs :
            (registerUser(username, email, "Abc123!", otp)
                /\ redis[RegisterRateKey(email)] # None)
                => /\ redis' = redis /\ users' = users /\ res'.job = None
                   /\ res'.out = IF AccountHolds(username, email) THEN Conflict
                                 ELSE RateLimited
       /\ \A email \in Emails, otp \in OTPs :
            (forgotPassword(email, otp) /\ redis[ResetRateKey(email)] # None)
                => /\ redis' = redis /\ users' = users /\ res'.job = None
                   /\ res'.out = ResetRateLimited]_vars

\* 30 seconds after a reset code was issued a further forgotPassword has just been
\* refused; the ticket and the marker keep the expiry times of the first call
C16_Witness ==
    /\ res.op = "forgotPassword" /\ res.at = now /\ res.out = ResetRateLimited
    /\ res.job = None
    /\ redis[ResetKey(res.email)] # None
    /\ redis[ResetKey(res.email)][1].exp = now + 270
    /\ redis[ResetRateKey(res.email)] # None
    /\ redis[ResetRateKey(res.email)][1].exp = now + 30

\* C17: the accounts change only by a verifyOtp that submits the code stored at
\* register:<email>, which appends one Account made from that staged entry (the hash of
\* its password, isVerified true); registerUser and every refused request leave the
\* accounts as they were; every Account is verified, and login never answers
\* "Account not verified".
C17_AccountsOnlyByVerification ==
    [][/\ (users' # users)
            => /\ res'.op = "verifyOtp" /\ res'.at = now /\ res'.out.status = 201
               /\ redis[RegisterKey(res'.email)] # None
               /\ StagedTicket(res'.email).otp = res'.otp
               /\ Len(users') = Len(users) + 1
               /\ \A i \in UserIdx : users'[i] = users[i]
               /\ users'[Len(users')].email = res'.email
               /\ users'[Len(users')].username = StagedTicket(res'.email).username
               /\ users'[Len(users')].password
                      = [bcrypt |-> StagedTicket(res'.email).password]
       /\ \A i \in 1..Len(users') : users'[i].isVerified
       /\ res'.out # NotVerified
       /\ (res'.op = "register" /\ res'.at = now') => users' = users]_vars

\* one registration has just been verified and is an Account; the other mailbox is
\* staged with its raw password and has no Account
C17_Witness ==
    /\ res.op = "verifyOtp" /\ res.at = now /\ res.out.status = 201
    /\ Len(users) = 1 /\ users[1].isVerified /\ users[1].email = res.email
    /\ \E e \in Emails \ {res.email} :
          /\ redis[RegisterKey(e)] # None
          /\ StagedTicket(e).password = "Abc123!"

\* C18: along the journey register is answered 200 and queues the code; the wrong code
\* is answered "Invalid OTP" and creates nothing; the stored code is answered 201 and
\* creates a verified Account; login with the registered email and password is
\* answered 200 and sets both cookies; logout is answered 200 and leaves no
\* refresh:<id>; the refresh cookie of the login is then answered "Session expired,
\* please log in again" and gets no accessToken cookie.
C18_Journey ==
    /\ (res.op = "register") => (res.out.status = 200 /\ res.job # None /\ users = <<>>)
    /\ (res.op = "verifyOtp" /\ users = <<>>)
          => (res.out = InvalidOtp /\ res.setAccess = None /\ res.setRefresh = None)
    /\ (res.op = "verifyOtp" /\ users # <<>>)
          => /\ res.out.status = 201
             /\ Len(users) = 1 /\ users[1].isVerified /\ users[1].email = res.email
    /\ (res.op = "login")
          => /\ res.out.threw = "none" /\ res.out.status = 200
             /\ res.setAccess # None /\ res.setRefresh # None
             /\ res.email = users[1].email
             /\ res.at = now => redis[RefreshKey(users[1].id)] # None
    /\ (res.op = "logout")
          => /\ res.out.threw = "none" /\ res.out.status = 200
             /\ redis[RefreshKey(users[1].id)] = None
             /\ users[1].status = "offline"
    /\ (res.op = "refresh")
          => /\ res.out = SessionExpired
             /\ res.setAccess = None
             /\ res.token[1].id = users[1].id
             /\ redis[RefreshKey(users[1].id)] = None

\* the journey has reached its end: after the logout, the refresh cookie set by the
\* login 30 seconds after the verification has just been refused
C18_Witness ==
    /\ res.op = "refresh" /\ res.at = now
    /\ res.out = SessionExpired
    /\ res.token # None /\ res.token[1] \in issuedRefresh
    /\ res.token[1].iat > 0
    /\ Cardinality(issuedRefresh) = 2
    /\ users[1].status = "offline"

\* C19: a /refresh without refreshToken cookie, with a cookie that is not a token signed
\* with the refresh secret, or with a token past its expiry, is refused with status 401
\* by the handler, sets no accessToken cookie and leaves Redis and the accounts as they
\* were.
C19_RefreshUnauthorized ==
    (/\ res.op = "refresh" /\ res.at = now
     /\ \/ res.token = None
        \/ res.token[1].secret # "REFRESH"
        \/ now >= res.token[1].exp)
        => /\ res.out.threw = "ApiError" /\ res.out.status = 401
           /\ res.setAccess = None

\* C20: every failure a handler raises with a status and a message of its choice
\* (409, 429, 400, 401, 403, 404) is received by the client with that status and that
\* message.
C20_DomainFailuresDelivered ==
    (res.out.threw = "ApiError")
        => Deliver(res.out) = [status |-> res.out.status, message |-> res.out.message]

----------------------------------------------------------------------------
(* Claims about the life of a staged registration: Spec *)

----------------------------------------------------------------------------
(* Claims about what a response carries: SpecSession *)

\* C22: raw tokens travel only in cookies. The responses of refresh, logout,
\* forgotPassword and verifyForgotPasswordOtp, and every refusal, have no data; the
\* data of a successful verifyOtp or login has the single field user, with exactly
\* the fields id, username, email and isVerified of the account the cookies were
\* issued for, so that no field holds a token.
C22_TokensOnlyInCookies ==
    /\ res.op \in {"refresh", "logout", "forgotPassword", "verifyForgotPasswordOtp",
                   "register"}
           => res.data = None
    /\ res.out.threw # "none" => res.data = None
    /\ res.data # None =>
           /\ res.op \in {"verifyOtp", "login"}
           /\ res.setAccess # None /\ res.setRefresh # None
           /\ DOMAIN res.data[1] = {"user"}
           /\ DOMAIN res.data[1].user = {"id", "username", "email", "isVerified"}
           /\ LET account == AccountOf(res.setRefresh[1].id) IN
              /\ res.data[1].user.id = account.id
              /\ res.data[1].user.username = account.username
              /\ res.data[1].user.email = account.email
              /\ res.data[1].user.isVerified = account.isVerified
    /\ (res.op \in {"verifyOtp", "login"} /\ res.out.threw = "none") => res.data # None

\* a login has just answered 200 with both cookies and the projection of the account
C22_Witness ==
    /\ res.op = "login" /\ res.out.status = 200 /\ res.at = now
    /\ res.setAccess # None /\ res.setRefresh # None
    /\ res.data = Some([user |-> [id |-> "id1", username |-> "alice",
                                  email |-> "a@x.com", isVerified |-> TRUE]])

----------------------------------------------------------------------------
(* Claims about the reset request: SpecReset *)

\* C23: the answer of POST /forgotpassword does not depend on whether an account
\* exists: for an email with an account and an email without one, both outside a
\* cooldown, the handler answers the same.
C23_ForgotPasswordGeneric ==
    \A e1, e2 \in Emails :
        (/\ findByEmail(e1) # {} /\ findByEmail(e2) = {}
         /\ redisGet(redis, ResetRateKey(e1)) = None
         /\ redisGet(redis, ResetRateKey(e2)) = None)
            => forgotPasswordOutcome(e1) = forgotPasswordOutcome(e2)

----------------------------------------------------------------------------
(* Claims about requests served concurrently: SpecRace *)

\* C24: of the verify-otp requests for one email that carry the stored code, one
\* creates the account; a request answered when the account of its email exists
\* either created it (201) or is refused with Conflict or with Expired.
C24_ConcurrentVerifyRefused ==
    (/\ res.op = "verifyOtp" /\ res.otp = "111111"
     /\ findByEmail(res.email) # {})
        => res.out \in {Ok(201, "User verified and logged in successfully."),
                        VerifyConflict, Expired}

----------------------------------------------------------------------------
(* Claims about concurrent issuance: SpecIssuanceRace *)

\* C25: the cooldown check does not arm the marker: a request that passes the check
\* leaves the marker absent until its second write, so a second request for the same
\* email can pass the check in between (C25_Witness). Every request past the check
\* writes its code over whatever is stored and has its own code mailed; after a
\* write only the written code is stored, and every other code is answered
\* InvalidOtp.
C25_CheckThenArm ==
    [][\A c \in Calls :
        /\ (registerGetRate(c) /\ calls'[c].pc = "registerSetTicket")
               => redis'[RegisterRateKey(calls[c].email)] = redis[RegisterRateKey(calls[c].email)]
        /\ (forgotPasswordGetRate(c) /\ calls'[c].pc = "forgotPasswordSetTicket")
               => redis'[ResetRateKey(calls[c].email)] = redis[ResetRateKey(calls[c].email)]
        /\ registerSetTicket(c) =>
               /\ StagedTicket(calls[c].email)'.otp = calls[c].otp
               /\ \A o \in OTPs \ {calls[c].otp} :
                      verifyOtpOutcome(calls[c].email, o)' = InvalidOtp
        /\ forgotPasswordSetTicket(c) =>
               /\ redis'[ResetKey(calls[c].email)][1].val.json.otp = calls[c].otp
               /\ \A o \in OTPs \ {calls[c].otp} :
                      verifyForgotPasswordOtpOutcome(calls[c].email, "Xyz789!", o)'
                          = InvalidOtp
        /\ registerSetMarker(c) =>
               /\ res'.out.status = 200 /\ res'.job[1].otp = calls[c].otp
        /\ forgotPasswordSetMarker(c) =>
               /\ res'.out.status = 200 /\ res'.job[1].otp = calls[c].otp]_vars

\* two register requests for a@x.com passed the check in the same second: one has
\* been answered 200 and its code is in the mail, the other, which wrote last, is
\* about to arm the marker again; the stored code is the other's, and the mailed
\* code is answered InvalidOtp
C25_Witness ==
    \E c \in Calls :
        /\ res.op = "register" /\ res.out.status = 200 /\ res.at = now
        /\ calls[c].pc = "registerSetMarker" /\ calls[c].email = res.email
        /\ redis[RegisterRateKey(res.email)] # None
        /\ res.job[1].otp # calls[c].otp
        /\ StagedTicket(res.email).otp = calls[c].otp
        /\ verifyOtpOutcome(res.email, res.job[1].otp) = InvalidOtp
        /\ users = <<>>

\* the same for two forgotPassword requests
C25_ResetRace ==
    \E c \in Calls :
        /\ res.op = "forgotPassword" /\ res.out.status = 200 /\ res.at = now
        /\ calls[c].pc = "forgotPasswordSetMarker" /\ calls[c].email = res.email
        /\ redis[ResetRateKey(res.email)] # None
        /\ res.job[1].otp # calls[c].otp
        /\ redis[ResetKey(res.email)][1].val.json.otp = calls[c].otp
        /\ verifyForgotPasswordOtpOutcome(res.email, "Xyz789!", res.job[1].otp) = InvalidOtp

----------------------------------------------------------------------------
(* Claims about staged entries and accounts under interleaving: SpecRace *)

\* a staged registration and an account with the same email exist at the same time
StagedWithAccount(email) ==
    redis[RegisterKey(email)] # None /\ findByEmail(email) # {}

\* C26 as stated: under every interleaving of register and verify-otp requests, no
\* staged registration exists together with an account of its email.
C26_AsStated == \A e \in Emails : ~StagedWithAccount(e)

\* C26, amended: a staged registration comes to exist together with an account of
\* its email only by the User.create of a verification of that email (until its
\* DEL) or by the write of a register request already past its duplicate check; a
\* register request that arrives when the account exists is refused with Conflict
\* and stages nothing; a verification that finds the account deletes the entry,
\* answers Conflict and creates nothing.
C26_CoexistenceOnlyInFlight ==
    [][/\ \A e \in Emails :
            (StagedWithAccount(e)' /\ ~StagedWithAccount(e)) =>
                \E c \in Calls :
                    /\ calls[c].email = e
                    /\ \/ /\ calls[c].pc = "verifyOtpCreate"
                          /\ calls'[c].pc = "verifyOtpSetRefresh"
                       \/ /\ calls[c].pc = "registerSetTicket"
                          /\ calls'[c].pc = "registerSetMarker"
       /\ \A c \in Calls, u \in Usernames, e \in Emails :
            (registerFindOne(c, u, e, RacePassword[u], "111111") /\ findByEmail(e) # {})
                => res'.out = Conflict /\ calls' = calls /\ redis' = redis
       /\ \A c \in Calls :
            /\ (verifyOtpFindOne(c) /\ findByEmail(calls[c].email) # {})
                   => calls'[c].pc = "verifyOtpDelConflict"
            /\ verifyOtpDelConflict(c) =>
                   /\ redis'[RegisterKey(calls[c].email)] = None
                   /\ res'.out = VerifyConflict
                   /\ users' = users]_vars

\* no request is in flight, and an entry staged by a register request that passed its
\* duplicate check before the account was created sits beside the account
C26_Witness ==
    /\ \A c \in Calls : calls[c].pc = "idle"
    /\ StagedWithAccount("a@x.com")
    /\ res.op = "register" /\ res.email = "a@x.com" /\ res.out.status = 200

----------------------------------------------------------------------------
(* Claims about issuing a code again: SpecReissue *)

\* C27: issuance is last-issued-wins. A staging (a reset request) that issues a code
\* replaces whatever is stored under register:<email> (reset:<email>) by its own
\* payload with 300 seconds to live; from then on every other code, the one issued
\* before included, is answered InvalidOtp; and a verification answered 201 creates
\* the account with the username and the password of the entry stored last, which
\* after a second staging are those of the second.
C27_LastIssuedWins ==
    [][/\ \A u \in Usernames, e \in Emails, o \in OTPs :
            registerUser(u, e, RacePassword[u], o) =>
                /\ res'.out.status = 200
                /\ redis'[RegisterKey(e)] =
                       Some([val |-> JSONstringify([username |-> u, email |-> e,
                                                    password |-> RacePassword[u],
                                                    otp |-> o]),
                             exp |-> now + 300])
                /\ \A o2 \in OTPs \ {o} : verifyOtpOutcome(e, o2)' = InvalidOtp
                /\ res.op = "register" =>
                       /\ redis[RegisterKey(e)] # None
                       /\ redis[RegisterKey(e)][1].exp < now + 300
                       /\ \A o1 \in OTPs :
                              o1 = res.job[1].otp
                                  => verifyOtpOutcome(e, o1)' = InvalidOtp
       /\ \A e \in Emails, o \in OTPs :
            (forgotPassword(e, o) /\ res'.out.status = 200) =>
                /\ redis'[ResetKey(e)] =
                       Some([val |-> JSONstringify([otp |-> o]), exp |-> now + 300])
                /\ \A o2 \in OTPs \ {o}, p \in Passwords :
                       verifyForgotPasswordOtpOutcome(e, p, o2)' = InvalidOtp
                /\ res.op = "forgotPassword" =>
                       /\ redis[ResetKey(e)] # None
                       /\ \A p \in Passwords, o1 \in OTPs :
                              o1 = res.job[1].otp
                                  => verifyForgotPasswordOtpOutcome(e, p, o1)'
                                         = InvalidOtp
       /\ \A e \in Emails, o \in OTPs :
            (verifyOtp(e, o) /\ res'.out.status = 201) =>
                /\ users'[Len(users')].username = StagedTicket(e).username
                /\ users'[Len(users')].password = bcryptHash(StagedTicket(e).password)
                /\ res.op = "register" =>
                       /\ users'[Len(users')].username = res.username
                       /\ users'[Len(users')].password = bcryptHash(res.password)
                       /\ users'[Len(users')].email = res.email]_vars

\* alice staged a@x.com at second 0, bob staged it again 60 seconds later with another
\* code, and the verification has created the account of bob with bob's password
C27_Witness ==
    /\ res.op = "verifyOtp" /\ res.out.status = 201 /\ res.at = now /\ now = 60
    /\ Len(users) = 1
    /\ users[1].username = "bob" /\ users[1].email = "a@x.com"
    /\ users[1].password = bcryptHash(RacePassword["bob"])
    /\ redis[RegisterKey("a@x.com")] = None

----------------------------------------------------------------------------
(* Claims about the fields of an account: SpecSession *)

\* C28: the status of an account follows login and logout: after a login answered
\* 200 the account is not offline, and after a logout answered 200 it is offline.
C28_StatusFollowsLogin ==
    /\ (res.op = "login" /\ res.out.status = 200)
           => AccountOf(res.setRefresh[1].id).status # "offline"
    /\ (res.op = "logout" /\ res.out.status = 200)
           => AccountOf(res.token[1].id).status = "offline"

\* C29: no account is ever deleted; the id, the email and the username of an
\* account never change; and its password hash changes only in a
\* verifyForgotPasswordOtp for its email, answered 200, that submitted the code
\* stored under reset:<email>, to the hash of the submitted password.
C29_AccountsStable ==
    [][/\ Len(users') >= Len(users)
       /\ \A i \in 1..Len(users) :
            /\ users'[i].id = users[i].id
            /\ users'[i].email = users[i].email
            /\ users'[i].username = users[i].username
            /\ users'[i].password # users[i].password =>
                   /\ res'.op = "verifyForgotPasswordOtp" /\ res'.out.status = 200
                   /\ res'.at = now
                   /\ res'.email = users[i].email
                   /\ redis[ResetKey(users[i].email)] # None
                   /\ redis[ResetKey(users[i].email)][1].val.json.otp = res'.otp
                   /\ users'[i].password = bcryptHash(res'.password)]_vars

\* both accounts exist, a reset has just changed the password of a@x.com to the
\* submitted one, and the account of b@x.com keeps its own
C29_Witness ==
    /\ Len(users) = 2
    /\ res.op = "verifyForgotPasswordOtp" /\ res.out.status = 200 /\ res.at = now
    /\ \E i, j \in UserIdx :
           /\ users[i].email = "a@x.com" /\ users[i].password = bcryptHash("Xyz789!")
           /\ users[j].email = "b@x.com" /\ users[j].password = bcryptHash("Abc123!")

----------------------------------------------------------------------------
(* Claims about the mail queue: SpecEnqueue *)

\* C30: a rejected emailQueue.add does not fail the request. Whether the queue
\* takes the job or not, registerUser and forgotPassword answer what their checks
\* decided, and when that is 200 the staged entry (the reset ticket) and the
\* cooldown marker are written with their times to live; nothing but the fate of
\* the mail job differs between the two runs.
C30_EnqueueFailureIgnored ==
    [][/\ \A u \in Usernames, e \in Emails, added \in BOOLEAN :
            registerUserEnqueue(u, e, RacePassword[u], "111111", added) =>
                /\ res'.out = registerOutcome(u, e)
                /\ users' = users
                /\ res'.out.status = 200 =>
                       /\ res'.enqueue = Some(Settled(added))
                       /\ redis' = [redis EXCEPT
                              ![RegisterKey(e)] =
                                  Some([val |-> JSONstringify(
                                                    [username |-> u, email |-> e,
                                                     password |-> RacePassword[u],
                                                     otp |-> "111111"]),
                                        exp |-> now + 300]),
                              ![RegisterRateKey(e)] =
                                  Some([val |-> "true", exp |-> now + 60])]
       /\ \A e \in Emails, added \in BOOLEAN :
            forgotPasswordEnqueue(e, "111111", added) =>
                /\ res'.out = forgotPasswordOutcome(e)
                /\ users' = users
                /\ res'.out.status = 200 =>
                       /\ res'.enqueue = Some(Settled(added))
                       /\ redis' = [redis EXCEPT
                              ![ResetKey(e)] =
                                  Some([val |-> JSONstringify([otp |-> "111111"]),
                                        exp |-> now + 300]),
                              ![ResetRateKey(e)] =
                                  Some([val |-> "true", exp |-> now + 60])]]_vars

\* the queue rejected the reset mail of a@x.com: the request was answered 200, and the
\* reset ticket and the marker are written
C30_Witness ==
    /\ res.op = "forgotPassword" /\ res.email = "a@x.com" /\ res.at = now
    /\ res.enqueue = Some("rejected")
    /\ res.out = Ok(200, "OTP sent to email")
    /\ redis[ResetKey("a@x.com")] # None
    /\ redis[ResetRateKey("a@x.com")] # None

----------------------------------------------------------------------------
(* Claims about the cooldown of each flow: SpecIssuance *)

\* C31: the cooldowns are independent per email and per flow. POST /register is
\* answered RateLimited exactly when no account stands in the way and the marker
\* register:ratelimit:<email> of its own email is armed, whatever the other markers
\* are, and it changes no key but register:<email> and register:ratelimit:<email>;
\* POST /forgotpassword is answered RateLimited exactly when the account exists and
\* reset:rateLimit:<email> is armed, and it changes no key but reset:<email> and
\* reset:rateLimit:<email>.
C31_CooldownPerEmailAndFlow ==
    [][/\ \A u \in Usernames, e \in Emails, o \in OTPs :
            registerUser(u, e, "Abc123!", o) =>
                /\ res'.out = RateLimited
                       <=> /\ findByUsernameOrEmail(u, e) = {}
                           /\ redis[RegisterRateKey(e)] # None
                /\ \A k \in Keys \ {RegisterKey(e), RegisterRateKey(e)} :
                       redis'[k] = redis[k]
       /\ \A e \in Emails, o \in OTPs :
            forgotPassword(e, o) =>
                /\ res'.out = ResetRateLimited
                       <=> /\ findByEmail(e) # {}
                           /\ redis[ResetRateKey(e)] # None
                /\ \A k \in Keys \ {ResetKey(e), ResetRateKey(e)} :
                       redis'[k] = redis[k]]_vars

\* the reset marker of a@x.com was armed in this very second, and POST /register for
\* b@x.com, made after it, was answered 200 and armed its own marker
C31_Witness ==
    /\ res.op = "register" /\ res.email = "b@x.com" /\ res.out.status = 200
    /\ res.at = now
    /\ redis[ResetRateKey("a@x.com")] # None
    /\ redis[ResetRateKey("a@x.com")][1].exp = now + 60
    /\ redis[RegisterRateKey("b@x.com")] # None
    /\ redis[ResetKey("a@x.com")] # None

\* the two flows of one email, reached only when requests interleave (SpecIssuanceRace):
\* the register marker of a@x.com is armed, the account exists, and a reset request for
\* a@x.com has passed its own cooldown check
C31_SameEmailOtherFlow ==
    \E c \in Calls :
        /\ calls[c].pc = "forgotPasswordSetTicket" /\ calls[c].email = "a@x.com"
        /\ redis[RegisterRateKey("a@x.com")] # None
        /\ redis[ResetRateKey("a@x.com")] = None

----------------------------------------------------------------------------
(* Claims about the access-control gate: SpecSession *)

\* C32: a refresh token does not pass the gate. Every refresh token the application
\* has signed (with REFRESH_TOKEN_SECRET, distinct from ACCESS_TOKEN_SECRET) is
\* refused by authValidator with 401 when it is presented as the accessToken
\* cookie; a logout attempted with it changes nothing and clears no cookie; and a
\* logout that runs presented an access token.
C32_RefreshTokenDoesNotPassGate ==
    [][/\ \A t \in issuedRefresh :
            /\ authValidator(Some(t)).status = 401
            /\ logoutUser(Some(t)) =>
                   /\ res'.out = InvalidAccessToken
                   /\ ~res'.cleared
                   /\ users' = users /\ redis' = redis
       /\ \A c \in Cookies :
            (logoutUser(c) /\ res'.out.status = 200) => c[1] \in issuedAccess]_vars

\* the refresh token of a live session (its hash is the session record) was presented
\* as the accessToken cookie of a logout and refused; the session is still there
C32_Witness ==
    /\ res.op = "logout" /\ res.at = now /\ res.token # None
    /\ res.token[1] \in issuedRefresh
    /\ res.out = InvalidAccessToken
    /\ redis[RefreshKey(res.token[1].id)] # None
    /\ redis[RefreshKey(res.token[1].id)][1].val = hashRefreshToken(res.token[1])
    /\ jwtVerify(res.token[1], "REFRESH") = "ok"
    /\ AccountOf(res.token[1].id).status = "online"

----------------------------------------------------------------------------
(* Claims about expiry: SpecHeal *)

\* no key of the five families exists
AllKeysAbsent == \A k \in Keys : redis[k] = None

\* C33: the ephemeral state heals itself. Every key that exists has an expiry time,
\* at most 7 days ahead; and once the requests have stopped, in whatever state they
\* left the store, every key is eventually absent.
C33_SelfHealing ==
    /\ [](\A k \in Keys : redis[k] # None =>
              /\ redis[k][1].exp > now
              /\ redis[k][1].exp <= now + 604800)
    /\ Quiet ~> AllKeysAbsent

\* the requests stopped while a register request was suspended between its two
\* writes (the staged entry is written, its marker is not) and a session record
\* exists; nothing will delete these keys but their expiry
C33_Witness ==
    /\ Quiet
    /\ \E c \in Calls : calls[c].pc = "registerSetMarker"
    /\ redis[RegisterKey(RaceEmail)] # None
    /\ redis[RegisterRateKey(RaceEmail)] = None
    /\ redis[RefreshKey("id1")] # None

----------------------------------------------------------------------------
(* Claims about /refresh under interleaving: SpecRefreshRace *)

\* C34 as stated: when /refresh has just set a new accessToken cookie, the session
\* record refresh:<accountId> exists and is the hash of the presented refresh token.
C34_AsStated ==
    (res.op = "refresh" /\ res.out.status = 200 /\ res.at = now) =>
        /\ redis[RefreshKey(res.token[1].id)] # None
        /\ redis[RefreshKey(res.token[1].id)][1].val = hashRefreshToken(res.token[1])

\* C34, amended: the session record is present and equal to the hash of the
\* presented token when /refresh reads it; a request that has passed that read sets
\* the new accessToken cookie whatever has happened to the record since (a logout
\* may have deleted it, a login may have replaced it).
C34_RecordCheckedAtRead ==
    [][\A c \in Calls :
        /\ \A k \in Cookies :
               (refreshTokenGet(c, k) /\ calls'[c].pc = "refreshTokenFindById") =>
                   /\ redis[RefreshKey(k[1].id)] # None
                   /\ redis[RefreshKey(k[1].id)][1].val = hashRefreshToken(k[1])
                   /\ jwtVerify(k[1], "REFRESH") = "ok"
        /\ refreshTokenFindById(c) =>
               /\ res'.out = Ok(200, "Access token refreshed successfully")
               /\ res'.setAccess # None
               /\ res'.setAccess[1].id = calls[c].id
               /\ redis' = redis]_vars

\* a logout was served between the read of the record and the response: /refresh has
\* just set a new accessToken cookie, the session record is gone and the account is
\* offline
C34_Witness ==
    /\ res.op = "refresh" /\ res.out.status = 200 /\ res.at = now
    /\ res.setAccess # None
    /\ redis[RefreshKey(res.token[1].id)] = None
    /\ AccountOf(res.token[1].id).status = "offline"

----------------------------------------------------------------------------
(* Claims about the gate and the session record: SpecSession *)

\* C35: the gate does not look at the session record. An access token the
\* application has issued passes authValidator exactly until its own expiry,
\* whether refresh:<accountId> exists or not: a logout does not revoke it.
C35_GateIgnoresSession ==
    \A t \in issuedAccess :
        authValidator(Some(t)) =
            IF now >= t.exp THEN AccessTokenExpired ELSE Ok(200, "next")

\* the logout has just deleted the session record, and the access token it was made
\* with still passes the gate
C35_Witness ==
    /\ res.op = "logout" /\ res.out.status = 200 /\ res.at = now
    /\ res.removed = 1
    /\ redis[RefreshKey(res.token[1].id)] = None
    /\ authValidator(res.token) = Ok(200, "next")


\* C36: a password reset does not touch the session. verifyForgotPasswordOtp leaves
\* every refresh:<accountId> as it was, and every refresh token gets from /refresh
\* the answer it would have got before the reset.
C36_ResetKeepsSession ==
    [][\A e \in Emails, p \in Passwords, o \in OTPs :
        verifyForgotPasswordOtp(e, p, o) =>
            /\ \A i \in 1..Len(ObjectIds) :
                   redis'[RefreshKey(ObjectIds[i])] = redis[RefreshKey(ObjectIds[i])]
            /\ \A t \in issuedRefresh :
                   refreshOutcome(Some(t))' = refreshOutcome(Some(t))]_vars

\* the reset has just replaced the password of a@x.com, and a refresh token issued
\* before it is still answered 200 by /refresh
C36_Witness ==
    /\ res.op = "verifyForgotPasswordOtp" /\ res.out.status = 200 /\ res.at = now
    /\ \E i \in UserIdx :
           /\ users[i].email = res.email
           /\ users[i].password = bcryptHash("Xyz789!")
           /\ \E t \in issuedRefresh :
                  /\ t.id = users[i].id
                  /\ refreshOutcome(Some(t)) = Ok(200, "Access token refreshed successfully")

----------------------------------------------------------------------------
(* Claims about markers and tickets: SpecHeal *)

\* the marker of a flow exists without the ticket of the flow
MarkerWithoutTicket(markerKey, ticketKey) ==
    redis[markerKey] # None /\ redis[ticketKey] = None

----------------------------------------------------------------------------
(* Claims about usernames: Spec *)

\* the staged entry of the email carries the code and the username of an Account
\* that belongs to another email
StagedUsernameTaken(email, otp) ==
    /\ redisGet(redis, RegisterKey(email)) # None
    /\ JSONparse(redisGet(redis, RegisterKey(email))[1]).otp = otp
    /\ findByEmail(email) = {}
    /\ \E i \in UserIdx :
          /\ users[i].username = JSONparse(redisGet(redis, RegisterKey(email))[1]).username
          /\ users[i].email # email

\* C38: no two Accounts have the same username; when a registration is staged whose
\* username has meanwhile become the username of an Account with another email,
\* verifying it with its correct OTP creates no Account, writes nothing to Redis
\* (no refresh record) and sets no cookie.
C38_UsernamesUnique ==
    /\ [](\A i, j \in UserIdx : users[i].username = users[j].username => i = j)
    /\ [][\A e \in Emails, o \in OTPs :
            (StagedUsernameTaken(e, o) /\ verifyOtp(e, o))
                => /\ users' = users
                   /\ redis' = redis
                   /\ issuedRefresh' = issuedRefresh /\ issuedAccess' = issuedAccess
                   /\ res'.setAccess = None /\ res'.setRefresh = None
                   /\ res'.out.status # 201]_vars

\* the second of two registrations with one username has just been verified with its
\* correct code and refused; its staged entry is still there
C38_Witness ==
    /\ res.op = "verifyOtp" /\ res.at = now
    /\ res.email # NoStr /\ res.otp # NoStr
    /\ StagedUsernameTaken(res.email, res.otp)
    /\ res.out = Thrown("MongoServerError")
    /\ res.setAccess = None /\ res.setRefresh = None
    /\ Len(users) = 1

----------------------------------------------------------------------------
(* Claims about refresh records and Accounts: SpecSession *)

\* C39: a refresh record at refresh:<accountId> exists only for the id of an Account,
\* and /refresh never answers "User not found".
C39_RecordImpliesAccount ==
    /\ \A n \in 1..Len(ObjectIds) :
          redis[RefreshKey(ObjectIds[n])] # None => findById(ObjectIds[n]) # {}
    /\ res.op = "refresh" => res.out # NotFound

\* /refresh has just matched the presented token against the record of an Account
\* and found the Account
C39_Witness ==
    /\ res.op = "refresh" /\ res.at = now
    /\ res.out.status = 200 /\ res.setAccess # None
    /\ redis[RefreshKey(res.token[1].id)] # None
    /\ redis[RefreshKey(res.token[1].id)][1].val = hashRefreshToken(res.token[1])
    /\ findById(res.token[1].id) # {}

----------------------------------------------------------------------------
(* resendEmailVerificationOTP: the handler is exported by the controller; the router
   mounts no route on it *)

\* a resend without the cooldown check
resendOutcomeNoCooldown(email) == Ok(200, "OTP sent to your email.")

\* resendEmailVerificationOTP: its one check, and what it answers
resendOutcome(email) ==
    IF redisGet(redis, RegisterRateKey(email)) # None THEN RateLimited
    ELSE Ok(200, "OTP sent to your email.")

\* resendEmailVerificationOTP with req.body = { email, username, password }
resendEmailVerificationOTP(username, email, password, otp) ==
    LET req == Request("resendEmailVerificationOTP", email, username, password, NoStr, None)
        out == resendOutcome(email)
        staged == JSONstringify([username |-> username, email |-> email,
                                 password |-> password, otp |-> otp])
    IN  IF out.threw # "none"
        THEN /\ res' = Reply(req, out)
             /\ UNCHANGED <<calls, users, redis, now, ticks, issuedRefresh, issuedAccess>>
        ELSE /\ redis' = redisSet(redisSet(redis, RegisterKey(email), staged, REGISTER_TTL),
                                  RegisterRateKey(email), "true", RATELIMIT_TTL)
             /\ res' = [Reply(req, emailQueueAdd(out, TRUE))
                          EXCEPT !.job = Some([name |-> "sendMail", email |-> email,
                                               subject |-> "OTP Verification",
                                               username |-> username, otp |-> otp]),
                                 !.enqueue = Some(Settled(TRUE))]
             /\ UNCHANGED <<calls, users, now, ticks, issuedRefresh, issuedAccess>>

\* Resend scenario: one mailbox; registration, resend and verification, with time
\* steps inside and past the cooldown and past the ticket
ResendSteps == {30, 270}
NextResend ==
    \/ \E u \in Usernames, o \in OTPs : registerUser(u, RaceEmail, "Abc123!", o)
    \/ \E u \in Usernames, o \in OTPs :
          resendEmailVerificationOTP(u, RaceEmail, "Abc123!", o)
    \/ \E o \in OTPs : verifyOtp(RaceEmail, o)
    \/ \E d \in ResendSteps : Advance(d, MaxTicks)

SpecResend == Init /\ [][NextResend]_vars

\* C40: resendEmailVerificationOTP issues no OTP and writes nothing while
\* register:ratelimit:<email> is present; otherwise it issues one, replaces
\* register:<email> with an entry that carries the new code and lives 300 seconds, and
\* arms the marker for 60 seconds; a marker armed by a resend refuses registerUser
\* as one armed by registerUser does.
C40_ResendSharesCooldown ==
    [][\A u \in Usernames, o \in OTPs :
          /\ resendEmailVerificationOTP(u, RaceEmail, "Abc123!", o) =>
                IF redis[RegisterRateKey(RaceEmail)] # None
                THEN /\ res'.out = RateLimited
                     /\ res'.job = None
                     /\ redis' = redis
                ELSE /\ res'.out.status = 200
                     /\ res'.job # None /\ res'.job[1].otp = o
                     /\ redis'[RegisterKey(RaceEmail)] =
                            Some([val |-> JSONstringify([username |-> u, email |-> RaceEmail,
                                                         password |-> "Abc123!", otp |-> o]),
                                  exp |-> now + 300])
                     /\ redis'[RegisterRateKey(RaceEmail)] =
                            Some([val |-> "true", exp |-> now + 60])
                     /\ \A k \in Keys \ {RegisterKey(RaceEmail), RegisterRateKey(RaceEmail)} :
                            redis'[k] = redis[k]
          /\ (/\ registerUser(u, RaceEmail, "Abc123!", o)
              /\ res.op = "resendEmailVerificationOTP" /\ res.out.status = 200
              /\ now < res.at + 60)
                => res'.out \in {RateLimited, Conflict} /\ redis' = redis]_vars

\* a resend has just been refused inside the cooldown; the staged entry it would have
\* replaced is still there
C40_Witness ==
    /\ res.op = "resendEmailVerificationOTP" /\ res.at = now
    /\ res.out = RateLimited /\ res.job = None
    /\ redis[RegisterRateKey(RaceEmail)] # None
    /\ redis[RegisterKey(RaceEmail)] # None
    /\ now > 0

\* a resend has just replaced a staged entry written earlier with another code
C40_Replaced ==
    /\ res.op = "resendEmailVerificationOTP" /\ res.at = now
    /\ res.out.status = 200 /\ now >= 60
    /\ redis[RegisterKey(RaceEmail)] # None
    /\ redis[RegisterKey(RaceEmail)][1].exp = now + 300
    /\ redis[RegisterRateKey(RaceEmail)][1].exp = now + 60

====
